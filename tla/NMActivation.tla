---------------------------- MODULE NMActivation ----------------------------
(***************************************************************************)
(* Forming and leaving a group over NetworkManager: NMP2PDevice.connect,   *)
(* _wait_activated, _read_ip_config, disconnect and close of p2p/nm.py,    *)
(* driven by the three attempts of cmd_connect (__main__.py).              *)
(*                                                                         *)
(* An activation is named by the attempt that asked for it.  It reports    *)
(* its state to those subscribed, and answers when it is read, until its   *)
(* object goes; it is bound to the program's connection to the bus.        *)
(***************************************************************************)
EXTENDS Naturals, Sequences

CONSTANT MaxAttempts    \* 3 in the code

ASSUME MaxAttemptsAssumption == MaxAttempts \in Nat

Attempts == 1..MaxAttempts
None == 0

VARIABLES
    pc,        \* where cmd_connect is
    attempt,   \* the attempt it is at
    active,    \* _active_path
    listening, \* the activation whose signal on_state is subscribed to
    reading,   \* whether the state is being read
    fut,       \* the future of _wait_activated
    ip,        \* what local_ip and sink_ip say: our role in the group
    got,       \* the attempt whose group was returned
    outcome,   \* how disconnect ended: "failed" if its error was swallowed,
               \* "cut" if the program was interrupted before its end
    bus,       \* replies and signals not yet received
    act        \* NetworkManager's activations

deviceVars == <<active, listening, reading, fut, ip, got>>
nmVars == <<pc, attempt, deviceVars, outcome, bus, act>>

Up == {"asked", "activating", "activated"}
Finals == {"activated", "deactivated"}
Messages == [of : Attempts, type : {"accepted", "refused", "gone"}]
    \cup [of : Attempts, state : Finals, type : {"signal"}]
    \cup [of : Attempts, state : Finals \cup {"activating"}, type : {"read"}]

NMInit ==
    /\ pc = "start" /\ attempt = 0
    /\ active = None /\ listening = None /\ reading = FALSE
    /\ fut = "pending" /\ ip = "none" /\ got = None /\ outcome = "none"
    /\ bus = <<>>
    /\ act = [n \in Attempts |-> "idle"]

-----------------------------------------------------------------------------
(* connect, up to three times.                                             *)

Connect ==
    /\ pc \in {"start", "pause"} /\ attempt < MaxAttempts
    /\ attempt' = attempt + 1
    /\ act' = [act EXCEPT ![attempt + 1] = "asked"]
    /\ pc' = "calling"
    /\ UNCHANGED <<deviceVars, outcome, bus>>

(* on_state sets the future once, at either end of the activation.         *)
OnState(state) ==
    fut' = IF fut # "pending" \/ state \notin Finals THEN fut ELSE state

(* Mutant: the state is read first and subscribed to afterwards. *)
ReadFirst ==
    /\ pc = "subscribing" /\ act[attempt] # "gone"
    /\ fut' = "pending"
    /\ reading' = TRUE
    /\ pc' = "reading"
    /\ UNCHANGED <<attempt, active, listening, ip, got, outcome, bus, act>>

(* _wait_activated: first the subscription, then the state that may have   *)
(* been reached before it.                                                 *)
Subscribe ==
    /\ pc = "subscribing" /\ act[attempt] # "gone"
    /\ fut' = "pending"
    /\ listening' = attempt
    /\ reading' = TRUE
    /\ pc' = "reading"
    /\ UNCHANGED <<attempt, active, ip, got, outcome, bus, act>>

(* The object has gone already: an error of D-Bus, which is not retried.   *)
SubscribeFails ==
    /\ pc = "subscribing" /\ act[attempt] = "gone"
    /\ pc' = "leaving"
    /\ UNCHANGED <<attempt, deviceVars, outcome, bus, act>>

WaitEnds(to) ==
    /\ pc = "waiting"
    /\ listening' = None
    /\ pc' = to
    /\ UNCHANGED <<attempt, active, reading, fut, ip, got, outcome, bus, act>>

Activated == fut = "activated" /\ WaitEnds("address")
ActivationFailed == fut = "deactivated" /\ WaitEnds("pause")

(* The activation goes on without us.                                      *)
ActivationTimedOut == WaitEnds("pause")

(* _read_ip_config: the address says whether we are the group's owner or a *)
(* client, which then knows the sink's.                                    *)
AddressAppears ==
    /\ pc = "address" /\ \E n \in Attempts : act[n] = "activated"
    /\ ip' \in {"owner", "client"}
    /\ got' = attempt
    /\ pc' = "connected"
    /\ UNCHANGED <<attempt, active, listening, reading, fut, outcome, bus, act>>

(* No group interface, or no address on it in five seconds. *)
NoAddress ==
    /\ pc = "address" /\ pc' = "pause"
    /\ UNCHANGED <<attempt, deviceVars, outcome, bus, act>>

GiveUp ==
    /\ pc = "pause" /\ attempt = MaxAttempts /\ pc' = "leaving"
    /\ UNCHANGED <<attempt, deviceVars, outcome, bus, act>>

-----------------------------------------------------------------------------
(* disconnect and close.                                                   *)

NothingToDisconnect ==
    /\ pc = "leaving" /\ active = None /\ pc' = "closed"
    /\ UNCHANGED <<attempt, deviceVars, outcome, bus, act>>

(* Only the last path is known. *)
Disconnect ==
    /\ pc = "leaving" /\ active # None
    /\ pc' = "disconnecting"
    /\ UNCHANGED <<attempt, deviceVars, outcome, bus, act>>

Deactivated == [act EXCEPT ![active] = IF @ \in Up THEN "down" ELSE @]

(* The finally clause: however it ended, the path is forgotten.            *)
Forgotten(how) ==
    /\ active' = None
    /\ outcome' = how
    /\ pc' = "closed"
    /\ UNCHANGED <<attempt, listening, reading, fut, ip, got, bus>>

Disconnected ==
    /\ pc = "disconnecting"
    /\ act' = Deactivated
    /\ Forgotten("done")

(* The error is logged, and the activation left to EndBound.               *)
DisconnectFails ==
    /\ pc = "disconnecting"
    /\ Forgotten("failed")
    /\ UNCHANGED act

(* Ctrl-C at any await, or the cast is over. *)
Leave ==
    /\ pc \notin {"start", "leaving", "disconnecting", "closed"} /\ pc' = "leaving"
    /\ UNCHANGED <<attempt, deviceVars, outcome, bus, act>>

(* The program is interrupted while it leaves: the call is not made, or    *)
(* may yet take the activation down.                                       *)
DisconnectCut ==
    /\ pc = "disconnecting"
    /\ act' \in {act, Deactivated}
    /\ Forgotten("cut")

LeavingCut ==
    /\ pc = "leaving"
    /\ outcome' = "cut"
    /\ pc' = "closed"
    /\ UNCHANGED <<attempt, deviceVars, bus, act>>

-----------------------------------------------------------------------------
(* What arrives on the bus.                                                *)

Arrives(type) ==
    /\ pc # "closed" /\ bus # <<>> /\ Head(bus).type = type
    /\ bus' = Tail(bus)

(* Mutant: the path is kept from the first attempt on. *)
KeepsFirstPath ==
    /\ Arrives("accepted") /\ pc = "calling"
    /\ active' = IF active = None THEN Head(bus).of ELSE active
    /\ pc' = "subscribing"
    /\ UNCHANGED <<attempt, listening, reading, fut, ip, got, outcome, act>>

OnAccepted ==
    /\ Arrives("accepted")
    /\ IF pc = "calling" THEN active' = Head(bus).of /\ pc' = "subscribing"
                         ELSE UNCHANGED <<active, pc>>
    /\ UNCHANGED <<attempt, listening, reading, fut, ip, got, outcome, act>>

(* Neither RuntimeError nor TimeoutError: the attempts are over.           *)
OnRefused ==
    /\ Arrives("refused")
    /\ pc' = IF pc = "calling" THEN "leaving" ELSE pc
    /\ UNCHANGED <<attempt, deviceVars, outcome, act>>

OnSignal ==
    /\ Arrives("signal")
    /\ IF Head(bus).of = listening THEN OnState(Head(bus).state) ELSE UNCHANGED fut
    /\ UNCHANGED <<pc, attempt, active, listening, reading, ip, got, outcome, act>>

OnRead ==
    /\ Arrives("read")
    /\ IF pc = "reading" THEN OnState(Head(bus).state) /\ pc' = "waiting"
                         ELSE UNCHANGED <<fut, pc>>
    /\ UNCHANGED <<attempt, active, listening, reading, ip, got, outcome, act>>

(* The object went before its state could be read.                         *)
OnGone ==
    /\ Arrives("gone")
    /\ pc' = IF pc = "reading" THEN "leaving" ELSE pc
    /\ UNCHANGED <<attempt, deviceVars, outcome, act>>

-----------------------------------------------------------------------------
(* NetworkManager.                                                         *)

Change(n, from, to, messages) ==
    /\ act[n] \in from
    /\ act' = [act EXCEPT ![n] = to]
    /\ bus' = bus \o messages
    /\ UNCHANGED <<pc, attempt, deviceVars, outcome>>

Signal(n, state) ==
    IF listening = n THEN <<[of |-> n, state |-> state, type |-> "signal"]>> ELSE <<>>

Answer(n) ==
    \/ Change(n, {"asked"}, "activating", <<[of |-> n, type |-> "accepted"]>>)
    \/ Change(n, {"asked"}, "gone", <<[of |-> n, type |-> "refused"]>>)

Activate(n) == Change(n, {"activating"}, "activated", Signal(n, "activated"))

Deactivate(n) ==
    Change(n, {"activating", "activated"}, "down", Signal(n, "deactivated"))

Remove(n) == Change(n, {"down"}, "gone", <<>>)

AnswerRead ==
    /\ reading
    /\ reading' = FALSE
    /\ bus' = Append(bus,
          IF act[attempt] = "gone" THEN [of |-> attempt, type |-> "gone"]
          ELSE [of |-> attempt, type |-> "read",
                state |-> IF act[attempt] = "down" THEN "deactivated"
                                                   ELSE act[attempt]])
    /\ UNCHANGED <<pc, attempt, active, listening, fut, ip, got, outcome, act>>

(* An activation ends with the connection to the bus it is bound to.       *)
EndBound ==
    /\ pc = "closed"
    /\ \E n \in Attempts : Change(n, Up, "gone", <<>>)

-----------------------------------------------------------------------------
Caller ==
    \/ Connect \/ Subscribe \/ SubscribeFails \/ Activated \/ ActivationFailed
    \/ ActivationTimedOut \/ AddressAppears \/ NoAddress \/ GiveUp
    \/ NothingToDisconnect \/ Disconnect \/ Disconnected \/ DisconnectFails
Interrupted == Leave \/ DisconnectCut \/ LeavingCut
Handlers == OnAccepted \/ OnRefused \/ OnSignal \/ OnRead \/ OnGone
Answers == AnswerRead \/ \E n \in Attempts : Answer(n)
Manager == \E n \in Attempts : Activate(n) \/ Deactivate(n) \/ Remove(n)

NMNext == Caller \/ Interrupted \/ Handlers \/ Answers \/ Manager \/ EndBound

(* The event loop runs, timeouts come and NetworkManager answers.  Nothing *)
(* says that a sink accepts, or that a caller leaves.                      *)
NMFairness == WF_nmVars(Caller) /\ WF_nmVars(Handlers) /\ WF_nmVars(Answers)

-----------------------------------------------------------------------------
(* Every variable has its type. *)
NMTypeOK ==
    /\ pc \in {"start", "calling", "subscribing", "reading", "waiting", "address",
               "pause", "connected", "leasing", "cast", "leaving",
               "disconnecting", "closed"}
    /\ outcome \in {"none", "done", "failed", "cut"}
    /\ attempt \in 0..MaxAttempts
    /\ {active, listening, got} \subseteq Attempts \cup {None}
    /\ reading \in BOOLEAN
    /\ fut \in {"pending"} \cup Finals
    /\ ip \in {"none", "owner", "client"}
    /\ bus \in Seq(Messages)
    /\ act \in [Attempts -> {"idle", "down", "gone"} \cup Up]

(* However the subscription, the state's reading and its change fall       *)
(* together, an activation that has reached its end does not leave the     *)
(* caller waiting: the future is set, or the signal is on its way.         *)
NoMissedState ==
    pc = "waiting" /\ fut = "pending" /\ act[attempt] # "activating" =>
        \E i \in DOMAIN bus : bus[i].type = "signal" /\ bus[i].of = attempt

(* The activation whose group the cast ran over is the one taken down,     *)
(* whichever attempts came before it; unless NetworkManager refuses, which *)
(* nobody is told, or the program is interrupted again as it leaves.       *)
GroupTakenDown ==
    pc = "closed" /\ outcome \notin {"failed", "cut"} /\ got # None =>
        act[got] \notin Up
=============================================================================
