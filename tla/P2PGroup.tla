----------------------------- MODULE P2PGroup -----------------------------
(***************************************************************************)
(* Forming and leaving a P2P group over wpa_supplicant: P2PDevice.connect, *)
(* disconnect and the signal handlers of p2p/supplicant.py, driven by the  *)
(* three attempts and the finally clause of cmd_connect (__main__.py).     *)
(*                                                                         *)
(* The supplicant answers each Connect, and reports how a negotiation ends *)
(* by signals on the bus, which may come long after the attempt that       *)
(* caused them.  A group is named by the attempt that formed it.           *)
(***************************************************************************)
EXTENDS Naturals, Sequences

Attempts == 1..3
NoGroup == 0

VARIABLES
    pc,        \* where cmd_connect is
    attempt,   \* the attempt it is at
    fut,       \* P2PDevice._group_fut
    futGroup,  \* the group in it
    group,     \* P2PDevice._group
    got,       \* cmd_connect's group
    target,    \* the group disconnect asks to be taken down
    outcome,   \* how disconnect ended: "failed" if its error was swallowed,
               \* "cut" if the program was interrupted at one of its awaits
    finishing, \* the _finish_group tasks, by the group they read; they run
               \* in the order of their signals, as their replies come
    bus,       \* replies and signals not yet received
    air        \* what wpa_supplicant is doing for each attempt

mainVars == <<pc, attempt, got, target, outcome>>
deviceVars == <<fut, futGroup, group, finishing>>
vars == <<mainVars, deviceVars, bus, air>>

Signals == [type : {"started", "failed"}, of : Attempts]
Replies == [type : {"accepted", "refused"}, of : Attempts]

Init ==
    /\ pc = "start" /\ attempt = 0 /\ got = NoGroup /\ target = NoGroup
    /\ outcome = "none"
    /\ fut = "none" /\ futGroup = NoGroup /\ group = NoGroup /\ finishing = <<>>
    /\ bus = <<>>
    /\ air = [n \in Attempts |-> "idle"]

-----------------------------------------------------------------------------
(* cmd_connect: up to three attempts, two seconds apart.                   *)

(* Mutant: as many attempts as it takes. *)
ConnectAgain ==
    /\ pc \in {"start", "pause"}
    /\ attempt' = attempt + 1
    /\ fut' = "pending" /\ futGroup' = NoGroup
    /\ air' = [air EXCEPT ![attempt + 1] = "asked"]
    /\ pc' = "calling"
    /\ UNCHANGED <<got, target, outcome, group, finishing, bus>>

Connect ==
    /\ pc \in {"start", "pause"} /\ attempt < 3
    /\ attempt' = attempt + 1
    /\ fut' = "pending" /\ futGroup' = NoGroup
    /\ air' = [air EXCEPT ![attempt + 1] = "asked"]
    /\ pc' = "calling"
    /\ UNCHANGED <<got, target, outcome, group, finishing, bus>>

(* wait_for(self._group_fut) returns: a group, or the error to raise.      *)
GroupReturned ==
    /\ pc = "waiting" /\ fut = "group"
    /\ got' = futGroup
    /\ pc' = "connected"
    /\ UNCHANGED <<attempt, target, outcome, deviceVars, bus, air>>

AttemptFailed ==
    /\ pc = "waiting" /\ fut = "error"
    /\ pc' = "pause"
    /\ UNCHANGED <<attempt, got, target, outcome, deviceVars, bus, air>>

AbandonFuture == fut' = IF fut = "pending" THEN "cancelled" ELSE fut

(* Mutant: no timeout. *)
NeverTimedOut ==
    /\ pc = "waiting" /\ fut = "error"
    /\ pc' = "pause"
    /\ UNCHANGED <<attempt, got, target, outcome, deviceVars, bus, air>>

(* ... or runs out of time, possibly with the result just set. *)
AttemptTimedOut ==
    /\ pc = "waiting"
    /\ AbandonFuture
    /\ pc' = "pause"
    /\ UNCHANGED <<attempt, got, target, outcome, futGroup, group, finishing, bus, air>>

GiveUp ==
    /\ pc = "pause" /\ attempt = 3
    /\ pc' = "leaving"
    /\ UNCHANGED <<attempt, got, target, outcome, deviceVars, bus, air>>

(* The cast is over, or Ctrl-C comes at any await.                         *)
Leave ==
    /\ pc \in {"calling", "waiting", "pause", "connected"}
    /\ IF pc = "waiting" THEN AbandonFuture ELSE UNCHANGED fut
    /\ pc' = "leaving"
    /\ UNCHANGED <<attempt, got, target, outcome, futGroup, group, finishing, bus, air>>

-----------------------------------------------------------------------------
(* disconnect, then close: the bus is gone and no handler runs any more.   *)

NothingToDisconnect ==
    /\ pc = "leaving" /\ group = NoGroup
    /\ pc' = "closed"
    /\ UNCHANGED <<attempt, got, target, outcome, deviceVars, bus, air>>

(* The group is introspected by its path ... *)
Disconnect ==
    /\ pc = "leaving" /\ group # NoGroup
    /\ pc' = "introspecting"
    /\ UNCHANGED <<attempt, got, target, outcome, deviceVars, bus, air>>

(* Mutant: only the group that connect returned is taken down. *)
IntrospectedOwn ==
    /\ pc = "introspecting"
    /\ target' = got
    /\ pc' = "disconnecting"
    /\ UNCHANGED <<attempt, got, outcome, deviceVars, bus, air>>

(* ... and its path, read again, is called: another may have been reported *)
(* in between.                                                             *)
Introspected ==
    /\ pc = "introspecting"
    /\ target' = group
    /\ pc' = "disconnecting"
    /\ UNCHANGED <<attempt, got, outcome, deviceVars, bus, air>>

TakenDown(n) == [air EXCEPT ![n] = IF @ = "up" THEN "over" ELSE @]

(* The finally clause: however it ended, the group is forgotten.           *)
Forgotten(how) ==
    /\ group' = NoGroup
    /\ outcome' = how
    /\ pc' = "closed"
    /\ UNCHANGED <<attempt, got, target, fut, futGroup, finishing, bus>>

Disconnected ==
    /\ pc = "disconnecting"
    /\ air' = TakenDown(target)
    /\ Forgotten("done")

(* Either await fails; the error is logged, and nobody tries again.        *)
DisconnectFails ==
    /\ pc \in {"introspecting", "disconnecting"}
    /\ Forgotten("failed")
    /\ UNCHANGED air

(* The program is interrupted at one of them: the group is forgotten all   *)
(* the same, which the call may yet take down.                             *)
DisconnectCut ==
    /\ pc \in {"introspecting", "disconnecting"}
    /\ Forgotten("cut")
    /\ \/ UNCHANGED air
       \/ pc = "disconnecting" /\ air' = TakenDown(target)

(* ... or before it gets there, in the rest of the finally clause. *)
LeavingCut ==
    /\ pc = "leaving"
    /\ outcome' = "cut"
    /\ pc' = "closed"
    /\ UNCHANGED <<attempt, got, target, deviceVars, bus, air>>

-----------------------------------------------------------------------------
(* What arrives on the bus.                                                *)

Arrives(type) == pc # "closed" /\ bus # <<>> /\ Head(bus).type = type
Received == bus' = Tail(bus)

ConnectAccepted ==
    /\ Arrives("accepted") /\ Received
    /\ pc' = IF pc = "calling" THEN "waiting" ELSE pc
    /\ UNCHANGED <<attempt, got, target, outcome, deviceVars, air>>

(* A D-Bus error is neither RuntimeError nor TimeoutError: no retry.       *)
ConnectRefused ==
    /\ Arrives("refused") /\ Received
    /\ pc' = IF pc = "calling" THEN "leaving" ELSE pc
    /\ UNCHANGED <<attempt, got, target, outcome, deviceVars, air>>

(* _on_group_started only creates the task.                                *)
OnGroupStarted ==
    /\ Arrives("started") /\ Received
    /\ finishing' = Append(finishing, Head(bus).of)
    /\ UNCHANGED <<mainVars, fut, futGroup, group, air>>

(* _fail: the future that waits now gets the error, whosever it is.        *)
Fail == fut' = IF fut = "pending" THEN "error" ELSE fut

OnFailure ==
    /\ Arrives("failed") /\ Received
    /\ Fail
    /\ UNCHANGED <<mainVars, futGroup, group, finishing, air>>

Finishing(n) ==
    /\ pc # "closed" /\ finishing # <<>> /\ Head(finishing) = n
    /\ finishing' = Tail(finishing)

(* Mutant: the group is kept only if somebody still waits for it.          *)
FinishAwaitedGroup(n) ==
    /\ Finishing(n)
    /\ IF fut = "pending" THEN fut' = "group" /\ futGroup' = n /\ group' = n
                          ELSE UNCHANGED <<fut, futGroup, group>>
    /\ UNCHANGED <<mainVars, bus, air>>

(* _finish_group has read the interface name of group n (which may have    *)
(* gone since), ...                                                        *)
FinishGroup(n) ==
    /\ Finishing(n)
    /\ group' = n
    /\ IF fut = "pending" THEN fut' = "group" /\ futGroup' = n
                          ELSE UNCHANGED <<fut, futGroup>>
    /\ UNCHANGED <<mainVars, bus, air>>

(* ... or finds that it has gone. *)
FinishVanished(n) ==
    /\ Finishing(n) /\ air[n] # "up"
    /\ Fail
    /\ UNCHANGED <<mainVars, futGroup, group, bus, air>>

-----------------------------------------------------------------------------
(* wpa_supplicant and the sink: one group is up at a time.                 *)

Answer ==
    \E n \in Attempts, r \in {"accepted", "refused"} :
        /\ air[n] = "asked"
        /\ air' = [air EXCEPT ![n] = IF r = "accepted" THEN "forming" ELSE "over"]
        /\ bus' = Append(bus, [type |-> r, of |-> n])
        /\ UNCHANGED <<mainVars, deviceVars>>

GroupUp ==
    \E n \in Attempts :
        /\ air[n] = "forming" /\ \A m \in Attempts : air[m] # "up"
        /\ air' = [air EXCEPT ![n] = "up"]
        /\ bus' = Append(bus, [type |-> "started", of |-> n])
        /\ UNCHANGED <<mainVars, deviceVars>>

(* GONegotiationFailure, GroupFormationFailure, or one after the other.    *)
FormationFails ==
    \E n \in Attempts, twice \in BOOLEAN :
        /\ air[n] = "forming"
        /\ air' = [air EXCEPT ![n] = "over"]
        /\ LET signal == [type |-> "failed", of |-> n]
           IN  bus' = bus \o (IF twice THEN <<signal, signal>> ELSE <<signal>>)
        /\ UNCHANGED <<mainVars, deviceVars>>

GroupVanishes ==
    \E n \in Attempts :
        /\ air[n] = "up"
        /\ air' = [air EXCEPT ![n] = "over"]
        /\ UNCHANGED <<mainVars, deviceVars, bus>>

Finished == pc = "closed" /\ UNCHANGED vars

-----------------------------------------------------------------------------
Main ==
    \/ Connect \/ GroupReturned \/ AttemptFailed \/ AttemptTimedOut \/ GiveUp
    \/ NothingToDisconnect \/ Disconnect \/ Introspected
    \/ Disconnected \/ DisconnectFails
Interrupted == Leave \/ DisconnectCut \/ LeavingCut
Handlers ==
    \/ ConnectAccepted \/ ConnectRefused \/ OnGroupStarted \/ OnFailure
    \/ \E n \in Attempts : FinishGroup(n) \/ FinishVanished(n)
Supplicant == Answer \/ GroupUp \/ FormationFails \/ GroupVanishes

Next == Main \/ Interrupted \/ Handlers \/ Supplicant \/ Finished

(* The event loop runs, a Connect is answered; nothing says that a         *)
(* negotiation ever ends, or that the caller ever leaves a group.          *)
Spec == Init /\ [][Next]_vars /\ WF_vars(Main) /\ WF_vars(Handlers) /\ WF_vars(Answer)

-----------------------------------------------------------------------------
(* Every variable has its type. *)
TypeOK ==
    /\ pc \in {"start", "calling", "waiting", "pause", "connected", "leaving",
               "introspecting", "disconnecting", "closed"}
    /\ outcome \in {"none", "done", "failed", "cut"}
    /\ attempt \in 0..3
    /\ fut \in {"none", "pending", "group", "error", "cancelled"}
    /\ {futGroup, group, got, target} \subseteq Attempts \cup {NoGroup}
    /\ finishing \in Seq(Attempts)
    /\ bus \in Seq(Signals \cup Replies)
    /\ air \in [Attempts -> {"idle", "asked", "forming", "up", "over"}]

Reported(n) ==
    /\ \A i \in DOMAIN finishing : finishing[i] # n
    /\ \A i \in DOMAIN bus : bus[i] # [type |-> "started", of |-> n]

Unfinished == outcome \in {"failed", "cut"}

(* A group that is up and has been reported is never forgotten: not by a   *)
(* failure of another attempt, not by a retry, a timeout or an interrupt;  *)
(* so the group that a cast runs over, even the late group of an attempt   *)
(* given up on, is the one that disconnect asks for.  If neither an error  *)
(* of that call nor an interrupt has ended disconnect, what survives the   *)
(* program came up, or was reported, while another was being taken down.   *)
UpGroupKnown ==
    \A n \in Attempts :
        air[n] = "up" /\ Reported(n) =>
            IF pc = "closed" THEN Unfinished \/ target \notin {NoGroup, n}
                             ELSE group = n

(* A negotiation that never ends does not hold the caller: every attempt   *)
(* leads to a group or out of the loop.                                    *)
AttemptsEnd == pc = "calling" ~> pc \in {"connected", "leaving"}
=============================================================================
