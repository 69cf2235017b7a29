----------------------------- MODULE UIBCTouch -----------------------------
(***************************************************************************)
(* The touch back-channel: UIBCServer (input/uibc.py), the uinput pointer  *)
(* (input/uinput.py) and the part of cmd_connect (__main__.py) that brings *)
(* them up and ends them.                                                  *)
(*                                                                         *)
(* The server takes any number of connections, and its stop leaves those   *)
(* that exist alone: `reader' is the task of each, which outlives the      *)
(* caller's finally clause.  A stream is a sequence of cells of two        *)
(* octets: a packet is a cell with its category, one with its length, and  *)
(* for a touch one with its body.                                          *)
(***************************************************************************)
EXTENDS Naturals, Sequences, FiniteSets

CONSTANTS
    Clients,    \* the connections sinks make
    MaxPackets  \* bounds the packets sent over all

ASSUME ClientsAssumption == "none" \notin Clients
ASSUME MaxPacketsAssumption == MaxPackets \in Nat

VARIABLES
    pc,         \* where cmd_connect is
    held,       \* cmd_connect's uibc and pointer are assigned
    listening,  \* UIBCServer._server accepts connections
    pointer,    \* the uinput device: none, open or closed
    down,       \* BTN_LEFT, as the kernel has it
    running,    \* the reader that is in its inner loop, or "none"
    reader,     \* the task of each connection, and what it waits for
    conn,       \* each connection, as its sink left it
    wire,       \* what has been sent over it and not been read
    buf,        \* the `buf' of its reader
    sent,       \* the packets sent over it
    injected    \* the touches of it that went to the pointer

caller == <<pc, held, listening>>
device == <<pointer, down>>
streams == <<wire, buf, sent>>
vars == <<caller, device, running, reader, conn, streams, injected>>

Touches == {"down", "move", "up"}
Packets == Touches \cup {"other", "bad"}  \* no touch; a length below four octets

(* The length a packet claims, and the one it has.                         *)
Claimed(packet) == CASE packet \in Touches -> 3 [] packet = "other" -> 2 [] OTHER -> 0
Size(packet) == IF packet \in Touches THEN 3 ELSE 2
Cells(packet) == [i \in 1..Size(packet) |-> [of |-> packet, at |-> i]]
Cell == [of : Packets, at : 1..3]

Init ==
    /\ pc = "create" /\ held = FALSE /\ listening = FALSE
    /\ pointer = "none" /\ down = FALSE /\ running = "none"
    /\ reader = [c \in Clients |-> "none"]
    /\ conn = [c \in Clients |-> "none"]
    /\ wire = [c \in Clients |-> <<>>] /\ buf = [c \in Clients |-> <<>>]
    /\ sent = [c \in Clients |-> <<>>] /\ injected = [c \in Clients |-> <<>>]

-----------------------------------------------------------------------------
(* The inner loop of _on_client awaits nothing: no other task runs.        *)
LoopFree == running = "none"

(* The length field; after a buffer has been dropped it may be anything.   *)
LengthAt(cell) == IF cell.at = 2 THEN {Claimed(cell.of)} ELSE 0..3

(* parse_packet: a touch, or None.                                         *)
ParsePacket(packet) ==
    IF Len(packet) < 3 THEN {"nothing"}
    ELSE IF packet[1].at = 1 THEN {packet[1].of}
    ELSE Touches \cup {"nothing"}

(* Mutant: a touch that is not down leaves the button alone.               *)
ButtonSticks(event, button) == button \/ event = "down"

(* on_touch: press, move and release.                                      *)
Button(event, button) ==
    CASE event = "down" -> TRUE [] event = "up" -> FALSE [] OTHER -> button

(* A write to the closed device raises OSError, which _on_client does not  *)
(* catch: the connection's task ends.                                      *)
OnTouch(c, event) ==
    IF pointer = "open"
    THEN /\ injected' = [injected EXCEPT ![c] = Append(@, event)]
         /\ down' = Button(event, down)
         /\ UNCHANGED <<running, reader, pointer>>
    ELSE /\ running' = "none"
         /\ reader' = [reader EXCEPT ![c] = "ended"]
         /\ UNCHANGED <<device, injected>>

-----------------------------------------------------------------------------
(* A connection's task.                                                    *)

(* Mutant: a chunk replaces what the one before has left.                  *)
ReadAfresh(c) ==
    /\ LoopFree /\ reader[c] = "reading" /\ conn[c] # "reset"
    /\ \E n \in 1..Len(wire[c]) :
          /\ buf' = [buf EXCEPT ![c] = SubSeq(wire[c], 1, n)]
          /\ wire' = [wire EXCEPT ![c] = SubSeq(@, n + 1, Len(@))]
    /\ running' = c
    /\ UNCHANGED <<caller, device, reader, conn, sent, injected>>

Read(c) ==
    /\ LoopFree /\ reader[c] = "reading" /\ conn[c] # "reset"
    /\ \E n \in 1..Len(wire[c]) :
          /\ buf' = [buf EXCEPT ![c] = @ \o SubSeq(wire[c], 1, n)]
          /\ wire' = [wire EXCEPT ![c] = SubSeq(@, n + 1, Len(@))]
    /\ running' = c
    /\ UNCHANGED <<caller, device, reader, conn, sent, injected>>

(* End of file, or ConnectionResetError.                                   *)
SinkGone(c) ==
    /\ LoopFree /\ reader[c] = "reading"
    /\ \/ conn[c] = "shut" /\ wire[c] = <<>>
       \/ conn[c] = "reset"
    /\ reader' = [reader EXCEPT ![c] = "ended"]
    /\ UNCHANGED <<caller, device, running, conn, streams, injected>>

(* The inner loop is left for the next read.                               *)
Pause(c, rest) ==
    /\ buf' = [buf EXCEPT ![c] = rest]
    /\ running' = "none"
    /\ UNCHANGED <<device, reader, injected>>

Take(c, length) ==
    /\ buf' = [buf EXCEPT ![c] = SubSeq(@, length + 1, Len(@))]
    /\ \E event \in ParsePacket(SubSeq(buf[c], 1, length)) :
          IF event \in Touches THEN OnTouch(c, event)
          ELSE UNCHANGED <<device, running, reader, injected>>

(* Mutant: no look at the least length a packet has.                       *)
CutUnchecked(c, length) ==
    IF Len(buf[c]) < length THEN Pause(c, buf[c]) ELSE Take(c, length)

Cut(c, length) ==
    IF length < 2 THEN Pause(c, <<>>)
    ELSE IF Len(buf[c]) < length THEN Pause(c, buf[c])
    ELSE Take(c, length)

Scan(c) ==
    /\ running = c
    /\ IF Len(buf[c]) < 2 THEN Pause(c, buf[c])
       ELSE \E length \in LengthAt(buf[c][2]) : Cut(c, length)
    /\ UNCHANGED <<caller, conn, wire, sent>>

Reader(c) == Read(c) \/ Scan(c) \/ SinkGone(c)

-----------------------------------------------------------------------------
(* The sinks, and the network.                                             *)

Connects(c) ==
    /\ LoopFree /\ listening /\ conn[c] = "none"
    /\ conn' = [conn EXCEPT ![c] = "up"]
    /\ reader' = [reader EXCEPT ![c] = "reading"]
    /\ UNCHANGED <<caller, device, running, streams, injected>>

(* MaxPackets bounds these. *)
AllSent == UNION {{c} \X DOMAIN sent[c] : c \in Clients}

Sends(c) ==
    /\ conn[c] = "up" /\ reader[c] = "reading"
    /\ Cardinality(AllSent) < MaxPackets
    /\ \E packet \in Packets :
          /\ sent' = [sent EXCEPT ![c] = Append(@, packet)]
          /\ wire' = [wire EXCEPT ![c] = @ \o Cells(packet)]
    /\ UNCHANGED <<caller, device, running, reader, conn, buf, injected>>

(* In order, after what has been sent; or a reset, which loses it.         *)
Leaves(c) ==
    /\ conn[c] = "up"
    /\ \/ conn' = [conn EXCEPT ![c] = "shut"] /\ UNCHANGED wire
       \/ /\ conn' = [conn EXCEPT ![c] = "reset"]
          /\ wire' = [wire EXCEPT ![c] = <<>>]
    /\ UNCHANGED <<caller, device, running, reader, buf, sent, injected>>

Sink(c) == Connects(c) \/ Sends(c) \/ Leaves(c)

-----------------------------------------------------------------------------
(* cmd_connect.                                                            *)

Goto(from, to) == LoopFree /\ pc = from /\ pc' = to

(* No layout, or no /dev/uinput: the cast goes on without touch.           *)
CreatePointer ==
    /\ \/ Goto("create", "listen") /\ pointer' = "open"
       \/ Goto("create", "poll") /\ UNCHANGED pointer
    /\ UNCHANGED <<held, listening, down, running, reader, conn, streams, injected>>

(* The port may be taken: the pointer is left without a variable.          *)
StartServer ==
    /\ \/ Goto("listen", "enable") /\ listening' = TRUE
       \/ Goto("listen", "poll") /\ UNCHANGED listening
    /\ UNCHANGED <<held, device, running, reader, conn, streams, injected>>

(* M14 is answered; or it is not: both are left without a variable.        *)
EnableUibc ==
    /\ Goto("enable", "poll")
    /\ held' \in BOOLEAN
    /\ UNCHANGED <<listening, device, running, reader, conn, streams, injected>>

(* The end of the cast, by the sink, the pipeline or an interrupt.         *)
CastEnds ==
    /\ \E from \in {"create", "listen", "enable", "poll"} : Goto(from, "finally")
    /\ UNCHANGED <<held, listening, device, running, reader, conn, streams, injected>>

(* Mutant: the listener goes, the pointer stays.                           *)
StopOnly ==
    /\ Goto("finally", "cleanup")
    /\ listening' = (listening /\ ~held)
    /\ UNCHANGED <<held, device, running, reader, conn, streams, injected>>

(* uibc.stop() and pointer.close(), with no await between them.  The       *)
(* kernel releases what a device that is destroyed held down.              *)
StopTouch ==
    /\ Goto("finally", "cleanup")
    /\ listening' = (listening /\ ~held)
    /\ pointer' = IF held THEN "closed" ELSE pointer
    /\ down' = (down /\ ~held)
    /\ UNCHANGED <<held, running, reader, conn, streams, injected>>

(* The rest of the finally clause ends, or an interrupt has broken it off: *)
(* asyncio.run cancels the readers, and the kernel closes the device.      *)
Exit ==
    /\ \E from \in {"finally", "cleanup"} : Goto(from, "exited")
    /\ listening' = FALSE
    /\ pointer' = IF pointer = "open" THEN "closed" ELSE pointer
    /\ down' = FALSE
    /\ reader' = [c \in Clients |-> IF reader[c] = "none" THEN "none" ELSE "ended"]
    /\ UNCHANGED <<held, running, conn, streams, injected>>

Caller == CreatePointer \/ StartServer \/ EnableUibc \/ CastEnds \/ StopTouch \/ Exit

Finished == pc = "exited" /\ UNCHANGED vars

Next ==
    \/ Caller
    \/ \E c \in Clients : Reader(c) \/ Sink(c)
    \/ Finished

(* A task that has the turn goes on.                                       *)
Spec == Init /\ [][Next]_vars /\ WF_vars(\E c \in Clients : Scan(c))

-----------------------------------------------------------------------------
(* Every variable has its type; the inner loop is that of a reader.        *)
TypeOK ==
    /\ pc \in {"create", "listen", "enable", "poll", "finally", "cleanup", "exited"}
    /\ held \in BOOLEAN /\ listening \in BOOLEAN
    /\ pointer \in {"none", "open", "closed"} /\ down \in BOOLEAN
    /\ running \in Clients \cup {"none"}
    /\ reader \in [Clients -> {"none", "reading", "ended"}]
    /\ conn \in [Clients -> {"none", "up", "shut", "reset"}]
    /\ wire \in [Clients -> Seq(Cell)] /\ buf \in [Clients -> Seq(Cell)]
    /\ sent \in [Clients -> Seq(Packets)]
    /\ injected \in [Clients -> Seq(Touches)]
    /\ running \in Clients => reader[running] = "reading"

TouchesAt(c) == {k \in DOMAIN sent[c] : sent[c][k] \in Touches}
WellFormed(c) == \A i \in DOMAIN sent[c] : sent[c][i] # "bad"
ReadAll(c) ==
    reader[c] = "reading" /\ running # c /\ conn[c] # "reset" /\ wire[c] = <<>>

(* However TCP cuts a stream of well-formed packets, each touch injected   *)
(* is one that was sent, `at[i]' being its place: none is repeated, left   *)
(* out or overtaken, and none waits for the one after it, as a reader that *)
(* has read all there is has injected it all.                              *)
TouchesInOrder ==
    \A c \in Clients : WellFormed(c) =>
        \E at \in [DOMAIN injected[c] -> TouchesAt(c)] :
            /\ \A i \in DOMAIN at : injected[c][i] = sent[c][at[i]]
            /\ \A i, j \in DOMAIN at : i < j => at[i] < at[j]
            /\ \A k \in TouchesAt(c) : ReadAll(c) \/ (\E i \in DOMAIN at : k < at[i])
                                       => \E i \in DOMAIN at : at[i] = k

(* A connection whose last touch but for moves is a press.                 *)
MidPress(touches) ==
    \E i \in DOMAIN touches :
        touches[i] = "down" /\ \A j \in i + 1..Len(touches) : touches[j] # "up"

(* The button is down only for a connection that pressed it and has not    *)
(* released it since (it may be gone by now), and for none once            *)
(* cmd_connect has closed the pointer it holds: a connection that outlives *)
(* uibc.stop() presses nothing.                                            *)
PressHasOwner ==
    down => /\ \E c \in Clients : MidPress(injected[c])
            /\ ~(held /\ pc \in {"cleanup", "exited"})

(* Whatever lengths a sink claims, the inner loop gives way: the caller    *)
(* and the session, on the same event loop, always run again.              *)
LoopGivesWay == []<>LoopFree
=============================================================================
