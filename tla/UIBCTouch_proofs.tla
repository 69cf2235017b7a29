-------------------------- MODULE UIBCTouch_proofs --------------------------
(***************************************************************************)
(* Theorems about UIBCTouch, for any set of connections and any number of  *)
(* packets.                                                                *)
(***************************************************************************)
EXTENDS UIBCTouch, SequenceTheorems, TLAPS

(* The button is down only on an open device, and a device that            *)
(* cmd_connect holds is not open after the finally clause's stop.          *)
DeviceInv ==
    /\ down => pointer = "open"
    /\ pc \in {"cleanup", "exited"} /\ held => pointer # "open"

(* The button is down for a connection that is in the middle of a press.   *)
OwnerInv == down => \E c \in Clients : MidPress(injected[c])

TouchInv == TypeOK /\ DeviceInv /\ OwnerInv

LEMMA CellsType ==
  ASSUME NEW packet \in Packets
  PROVE  Cells(packet) \in Seq(Cell)
  <1>1. Size(packet) \in 1..3
    BY DEF Size
  <1>2. Cells(packet) \in [1..Size(packet) -> Cell]
    BY <1>1 DEF Cells, Cell
  <1> QED
    BY <1>1, <1>2, SMT

LEMMA ButtonType ==
  ASSUME NEW event \in Touches, NEW button \in BOOLEAN
  PROVE  Button(event, button) \in BOOLEAN
  BY DEF Button, Touches

(* A press lasts through what is appended, but for an up.                  *)
LEMMA PressLasts ==
  ASSUME NEW touches \in Seq(Touches), NEW event \in Touches,
         event = "down" \/ (event # "up" /\ MidPress(touches))
  PROVE  MidPress(Append(touches, event))
  <1> DEFINE longer == Append(touches, event)
  <1>1. /\ DOMAIN longer = 1..Len(touches) + 1 /\ Len(longer) = Len(touches) + 1
        /\ longer[Len(touches) + 1] = event
        /\ \A i \in 1..Len(touches) : longer[i] = touches[i]
    OBVIOUS
  <1>2. CASE event = "down"
    <2>1. \A j \in (Len(touches) + 1) + 1..Len(longer) : longer[j] # "up"
      BY <1>1
    <2> QED
      BY <1>1, <1>2, <2>1 DEF MidPress
  <1>3. CASE event # "up" /\ MidPress(touches)
    <2>1. PICK i \in DOMAIN touches :
            touches[i] = "down" /\ \A j \in i + 1..Len(touches) : touches[j] # "up"
      BY <1>3 DEF MidPress
    <2>2. i \in DOMAIN longer /\ longer[i] = "down"
      BY <1>1, <2>1
    <2>3. \A j \in i + 1..Len(longer) : longer[j] # "up"
      BY <1>1, <1>3, <2>1
    <2> QED
      BY <2>2, <2>3 DEF MidPress
  <1> QED
    BY <1>2, <1>3

-----------------------------------------------------------------------------
LEMMA TouchStart == Init => TouchInv
  <1> SUFFICES ASSUME Init PROVE TouchInv
    OBVIOUS
  <1>1. <<>> \in Seq(Cell) /\ <<>> \in Seq(Packets) /\ <<>> \in Seq(Touches)
    OBVIOUS
  <1>2. TypeOK
    BY <1>1, ClientsAssumption DEF Init, TypeOK
  <1> QED
    BY <1>2 DEF Init, TouchInv, DeviceInv, OwnerInv

(* on_touch: a press, a move or a release, or the end of the task.         *)
LEMMA OnTouchKeeps ==
  ASSUME TouchInv, NEW c \in Clients, NEW event \in Touches, running = c,
         OnTouch(c, event), UNCHANGED <<caller, conn, wire, sent>>,
         buf' \in [Clients -> Seq(Cell)]
  PROVE  TouchInv'
  <1> USE DEF TouchInv
  <1>1. CASE pointer = "open"
    <2>1. /\ injected' = [injected EXCEPT ![c] = Append(@, event)]
          /\ down' = Button(event, down)
          /\ UNCHANGED <<running, reader, pointer>>
      BY <1>1 DEF OnTouch
    <2>2. TypeOK'
      BY <2>1, ButtonType DEF TypeOK, caller
    <2>3. DeviceInv'
      BY <1>1, <2>1 DEF DeviceInv, caller
    <2>4. OwnerInv'
      <3>1. SUFFICES ASSUME down'
                     PROVE  \E d \in Clients : MidPress(injected'[d])
        BY DEF OwnerInv
      <3>2. injected \in [Clients -> Seq(Touches)] /\ down \in BOOLEAN
        BY DEF TypeOK
      <3>3. injected'[c] = Append(injected[c], event)
        BY <2>1, <3>2
      <3>4. CASE event = "down"
        BY <3>2, <3>3, <3>4, PressLasts
      <3>5. CASE event # "down"
        <4>1. event # "up" /\ down
          BY <2>1, <3>1, <3>2, <3>5 DEF Button
        <4>2. PICK d \in Clients : MidPress(injected[d])
          BY <4>1 DEF OwnerInv
        <4>3. CASE d = c
          BY <3>2, <3>3, <4>1, <4>2, <4>3, PressLasts
        <4>4. CASE d # c
          BY <2>1, <3>2, <4>2, <4>4
        <4> QED
          BY <4>3, <4>4
      <3> QED
        BY <3>4, <3>5
    <2> QED
      BY <2>2, <2>3, <2>4
  <1>2. CASE pointer # "open"
    <2>1. /\ running' = "none" /\ reader' = [reader EXCEPT ![c] = "ended"]
          /\ UNCHANGED <<device, injected>>
      BY <1>2 DEF OnTouch
    <2> QED
      BY <2>1, ClientsAssumption
         DEF TypeOK, DeviceInv, OwnerInv, caller, device
  <1> QED
    BY <1>1, <1>2

(* The inner loop of _on_client.                                           *)
LEMMA ScanKeeps ==
  ASSUME TouchInv, NEW c \in Clients, Scan(c)
  PROVE  TouchInv'
  <1> USE DEF TouchInv
  <1>1. /\ running = c /\ UNCHANGED <<caller, conn, wire, sent>>
        /\ buf \in [Clients -> Seq(Cell)] /\ buf[c] \in Seq(Cell)
    BY DEF Scan, TypeOK
  <1>2. ASSUME NEW rest \in Seq(Cell), Pause(c, rest)
        PROVE  TouchInv'
    BY <1>1, <1>2, ClientsAssumption
       DEF Pause, TypeOK, DeviceInv, OwnerInv, caller, device
  <1>3. ASSUME NEW length \in 2..3, length <= Len(buf[c]), Take(c, length)
        PROVE  TouchInv'
    <2>1. SubSeq(buf[c], length + 1, Len(buf[c])) \in Seq(Cell)
      BY <1>1, <1>3
    <2>2. buf' \in [Clients -> Seq(Cell)]
      BY <1>1, <1>3, <2>1 DEF Take
    <2>3. PICK event \in ParsePacket(SubSeq(buf[c], 1, length)) :
            IF event \in Touches THEN OnTouch(c, event)
            ELSE UNCHANGED <<device, running, reader, injected>>
      BY <1>3 DEF Take
    <2>4. CASE event \in Touches
      BY <1>1, <2>2, <2>3, <2>4, OnTouchKeeps
    <2>5. CASE event \notin Touches
      BY <1>1, <2>2, <2>3, <2>5
         DEF TypeOK, DeviceInv, OwnerInv, caller, device
    <2> QED
      BY <2>4, <2>5
  <1>4. CASE Len(buf[c]) < 2
    BY <1>1, <1>2, <1>4 DEF Scan
  <1>5. CASE ~(Len(buf[c]) < 2)
    <2>1. PICK length \in LengthAt(buf[c][2]) : Cut(c, length)
      BY <1>5 DEF Scan
    <2>2. length \in 0..3
      BY DEF LengthAt, Claimed
    <2>3. <<>> \in Seq(Cell)
      OBVIOUS
    <2>4. CASE length < 2
      BY <1>2, <2>1, <2>3, <2>4 DEF Cut
    <2>5. CASE ~(length < 2) /\ Len(buf[c]) < length
      BY <1>1, <1>2, <2>1, <2>5 DEF Cut
    <2>6. CASE ~(length < 2) /\ ~(Len(buf[c]) < length)
      <3>1. length \in 2..3 /\ length <= Len(buf[c])
        BY <1>1, <2>2, <2>6
      <3> QED
        BY <1>3, <2>1, <2>6, <3>1 DEF Cut
    <2> QED
      BY <2>4, <2>5, <2>6
  <1> QED
    BY <1>4, <1>5

(* The rest of a connection's task, its sink and the network.              *)
LEMMA ConnectionKeeps ==
  ASSUME TouchInv, NEW c \in Clients, Reader(c) \/ Sink(c)
  PROVE  TouchInv'
  <1> USE DEF TouchInv
  <1>1. ASSUME Read(c) PROVE TouchInv'
    <2>1. PICK n \in 1..Len(wire[c]) :
            /\ buf' = [buf EXCEPT ![c] = @ \o SubSeq(wire[c], 1, n)]
            /\ wire' = [wire EXCEPT ![c] = SubSeq(@, n + 1, Len(@))]
      BY <1>1 DEF Read
    <2>2. wire[c] \in Seq(Cell) /\ buf[c] \in Seq(Cell)
      BY DEF TypeOK
    <2>3. /\ SubSeq(wire[c], 1, n) \in Seq(Cell)
          /\ SubSeq(wire[c], n + 1, Len(wire[c])) \in Seq(Cell)
      BY <2>2
    <2>4. buf[c] \o SubSeq(wire[c], 1, n) \in Seq(Cell)
      BY <2>2, <2>3
    <2> QED
      BY <1>1, <2>1, <2>3, <2>4
         DEF Read, TypeOK, DeviceInv, OwnerInv, caller, device
  <1>2. ASSUME SinkGone(c) PROVE TouchInv'
    BY <1>2, ClientsAssumption
       DEF SinkGone, LoopFree, TypeOK, DeviceInv, OwnerInv, caller, device, streams
  <1>3. ASSUME Connects(c) PROVE TouchInv'
    <2>1. /\ running = "none" /\ running' = running
          /\ conn' = [conn EXCEPT ![c] = "up"]
          /\ reader' = [reader EXCEPT ![c] = "reading"]
          /\ UNCHANGED <<caller, device, streams, injected>>
      BY <1>3 DEF Connects, LoopFree
    <2>2. TypeOK'
      BY <2>1, ClientsAssumption DEF TypeOK, caller, device, streams
    <2> QED
      BY <2>1, <2>2 DEF DeviceInv, OwnerInv, caller, device
  <1>4. ASSUME Sends(c) PROVE TouchInv'
    <2>1. PICK packet \in Packets :
            /\ sent' = [sent EXCEPT ![c] = Append(@, packet)]
            /\ wire' = [wire EXCEPT ![c] = @ \o Cells(packet)]
      BY <1>4 DEF Sends
    <2>2. wire[c] \o Cells(packet) \in Seq(Cell)
      BY CellsType DEF TypeOK
    <2>3. Append(sent[c], packet) \in Seq(Packets)
      BY DEF TypeOK
    <2> QED
      BY <1>4, <2>1, <2>2, <2>3
         DEF Sends, TypeOK, DeviceInv, OwnerInv, caller, device
  <1>5. ASSUME Leaves(c) PROVE TouchInv'
    <2>1. conn' \in [Clients -> {"none", "up", "shut", "reset"}]
      BY <1>5 DEF Leaves, TypeOK
    <2>2. wire' \in [Clients -> Seq(Cell)]
      <3>1. <<>> \in Seq(Cell)
        OBVIOUS
      <3> QED
        BY <1>5, <3>1 DEF Leaves, TypeOK
    <2> QED
      BY <1>5, <2>1, <2>2
         DEF Leaves, TypeOK, DeviceInv, OwnerInv, caller, device
  <1> QED
    BY <1>1, <1>2, <1>3, <1>4, <1>5, ScanKeeps DEF Reader, Sink

(* cmd_connect brings the pointer and the listener up and ends them.       *)
LEMMA CallerKeeps ==
  ASSUME TouchInv, Caller
  PROVE  TouchInv'
  <1> USE DEF TouchInv, TypeOK, DeviceInv, OwnerInv, Goto, LoopFree, streams
  <1>1. ASSUME CreatePointer PROVE TouchInv'
    BY <1>1 DEF CreatePointer
  <1>2. ASSUME StartServer PROVE TouchInv'
    BY <1>2 DEF StartServer, device
  <1>3. ASSUME EnableUibc PROVE TouchInv'
    BY <1>3 DEF EnableUibc, device
  <1>4. ASSUME CastEnds PROVE TouchInv'
    BY <1>4 DEF CastEnds, device
  <1>5. ASSUME StopTouch PROVE TouchInv'
    BY <1>5 DEF StopTouch
  <1>6. ASSUME Exit PROVE TouchInv'
    <2>1. running' = running /\ running = "none"
      BY <1>6 DEF Exit
    <2>2. reader' \in [Clients -> {"none", "reading", "ended"}]
      BY <1>6 DEF Exit
    <2>3. pointer' \in {"none", "open", "closed"} /\ down' = FALSE
      BY <1>6 DEF Exit
    <2>4. TypeOK'
      BY <1>6, <2>1, <2>2, <2>3, ClientsAssumption DEF Exit
    <2>5. pointer' # "open"
      BY <1>6 DEF Exit
    <2> QED
      BY <1>6, <2>3, <2>4, <2>5 DEF Exit
  <1> QED
    BY <1>1, <1>2, <1>3, <1>4, <1>5, <1>6 DEF Caller

LEMMA TouchStep == TouchInv /\ [Next]_vars => TouchInv'
  <1> SUFFICES ASSUME TouchInv, [Next]_vars PROVE TouchInv'
    OBVIOUS
  <1>1. CASE UNCHANGED vars
    BY <1>1 DEF vars, caller, device, streams, TouchInv, TypeOK, DeviceInv, OwnerInv
  <1> QED
    BY <1>1, CallerKeeps, ConnectionKeeps DEF Next, Finished

(* The inductive invariant: types, the state of the device at each step of *)
(* cmd_connect, and whose press the button is down for.                    *)
THEOREM TouchCorrect == Spec => []TouchInv
  BY TouchStart, TouchStep, PTL DEF Spec

(* Every variable of the touch back-channel has its type.                  *)
THEOREM TypeCorrect == Spec => []TypeOK
  <1>1. TouchInv => TypeOK
    BY DEF TouchInv
  <1> QED
    BY <1>1, TouchCorrect, PTL

(* However many connections of input/uibc.py share the pointer, the button *)
(* is down only for one that pressed it and has not released it since, and *)
(* for none once the pointer that cmd_connect holds has been closed.       *)
THEOREM PressOwned == Spec => []PressHasOwner
  <1>1. TouchInv => PressHasOwner
    BY DEF TouchInv, DeviceInv, OwnerInv, PressHasOwner
  <1> QED
    BY <1>1, TouchCorrect, PTL

-----------------------------------------------------------------------------
(* The order of touches.  `parsed' is how many of its packets a connection *)
(* has been relieved of, `at' where the touches injected are among them,   *)
(* and off[k] the length of the first k packets in cells.                  *)

(* The touches injected are those of the packets parsed, in their order.   *)
Placed(touches, packets, parsed, at) ==
    /\ at \in [DOMAIN touches -> 1..parsed]
    /\ \A i \in DOMAIN touches : touches[i] = packets[at[i]]
    /\ \A i, j \in DOMAIN touches : i < j => at[i] < at[j]
    /\ \A k \in 1..parsed : packets[k] \in Touches => \E i \in DOMAIN touches : at[i] = k

Offsets(off, packets) ==
    /\ off \in [0..Len(packets) -> Nat] /\ off[0] = 0
    /\ \A k \in 1..Len(packets) : off[k] = off[k - 1] + Size(packets[k])
    /\ \A k \in 0..Len(packets) : off[k] <= off[Len(packets)]

Remaining(packets, parsed, off) == off[Len(packets)] - off[parsed]

(* Where cell j of packet k lies in what has not been parsed; and that it  *)
(* does lie there, if `cells' are what follows the first `shift'.          *)
Place(off, parsed, k, j) == off[k - 1] - off[parsed] + j

Lie(cells, shift, packets, parsed, off) ==
    \A k \in parsed + 1..Len(packets) : \A j \in 1..Size(packets[k]) :
        Place(off, parsed, k, j) - shift \in 1..Len(cells) =>
            cells[Place(off, parsed, k, j) - shift] = [of |-> packets[k], at |-> j]

(* What has not been parsed is in the buffer and on the wire, as far as it *)
(* has not been lost.                                                      *)
Laid(cells, more, packets, parsed, off) ==
    /\ Offsets(off, packets)
    /\ Len(cells) + Len(more) <= Remaining(packets, parsed, off)
    /\ Lie(cells, 0, packets, parsed, off)
    /\ Lie(more, Len(cells), packets, parsed, off)

(* A reader that waits lacks a part of the next packet.                    *)
Reads(c, parsed, off) ==
    /\ Laid(buf[c], wire[c], sent[c], parsed, off)
    /\ conn[c] # "reset" =>
          Len(buf[c]) + Len(wire[c]) = Remaining(sent[c], parsed, off)
    /\ running # c /\ parsed < Len(sent[c]) =>
          Len(buf[c]) < Size(sent[c][parsed + 1])

Ordered(c) ==
    \E parsed \in 0..Len(sent[c]) :
        /\ \E at : Placed(injected[c], sent[c], parsed, at)
        /\ reader[c] # "ended" => \E off : Reads(c, parsed, off)

OrderInv == \A c \in Clients : WellFormed(c) => Ordered(c)

(* A connection that has not been made has no reader.                      *)
DialInv == \A c \in Clients : conn[c] = "none" => reader[c] = "none"

LEMMA SizeType == ASSUME NEW packet PROVE Size(packet) \in 2..3
  BY DEF Size

LEMMA OffsetsType ==
  ASSUME NEW packets \in Seq(Packets), NEW off, Offsets(off, packets)
  PROVE  /\ off[Len(packets)] \in Nat
         /\ \A k \in 0..Len(packets) : off[k] \in Nat /\ off[k] <= off[Len(packets)]
  <1>1. Len(packets) \in Nat /\ Len(packets) \in 0..Len(packets)
    OBVIOUS
  <1>2. off \in [0..Len(packets) -> Nat]
    BY DEF Offsets
  <1> QED
    BY <1>1, <1>2 DEF Offsets

(* A packet appended to what has been sent lies behind the others.         *)
LEMMA OffsetsGrow ==
  ASSUME NEW packets \in Seq(Packets), NEW packet \in Packets, NEW off,
         Offsets(off, packets)
  PROVE  \E longer :
            /\ Offsets(longer, Append(packets, packet))
            /\ \A k \in 0..Len(packets) : longer[k] = off[k]
            /\ longer[Len(packets) + 1] = off[Len(packets)] + Size(packet)
  <1> DEFINE m == Len(packets)
             longer == [k \in 0..m + 1 |-> IF k <= m THEN off[k] ELSE off[m] + Size(packet)]
             more == Append(packets, packet)
  <1>1. m \in Nat /\ Len(more) = m + 1 /\ more[m + 1] = packet
        /\ \A k \in 1..m : more[k] = packets[k]
    OBVIOUS
  <1>2. off \in [0..m -> Nat] /\ off[0] = 0
    BY DEF Offsets
  <1>3. Size(packet) \in 2..3
    BY SizeType
  <1>4. longer \in [0..m + 1 -> Nat] /\ longer[0] = 0
        /\ longer[m + 1] = off[m] + Size(packet)
        /\ \A k \in 0..m : longer[k] = off[k]
    BY <1>1, <1>2, <1>3
  <1>5. \A k \in 1..m + 1 : longer[k] = longer[k - 1] + Size(more[k])
    <2> SUFFICES ASSUME NEW k \in 1..m + 1
                 PROVE  longer[k] = longer[k - 1] + Size(more[k])
      OBVIOUS
    <2>1. CASE k = m + 1
      <3>1. k - 1 = m
        BY <1>1, <2>1
      <3> QED
        BY <1>1, <1>4, <2>1, <3>1
    <2>2. CASE k # m + 1
      <3>1. k \in 1..m /\ k - 1 \in 0..m /\ k \in 0..m
        BY <1>1, <2>2
      <3>2. off[k] = off[k - 1] + Size(packets[k])
        BY <3>1 DEF Offsets
      <3> QED
        BY <1>1, <1>4, <3>1, <3>2
    <2> QED
      BY <2>1, <2>2
  <1>6. \A k \in 0..m + 1 : longer[k] <= longer[m + 1]
    <2>1. \A k \in 0..m : off[k] <= off[m]
      BY DEF Offsets
    <2>2. m \in 0..m /\ off[m] \in Nat
      BY <1>1, <1>2
    <2> HIDE DEF longer
    <2> QED
      BY <1>1, <1>2, <1>3, <1>4, <2>1, <2>2
  <1> HIDE DEF longer
  <1> QED
    BY <1>1, <1>4, <1>5, <1>6 DEF Offsets


LEMMA CellsOf ==
  ASSUME NEW packet \in Packets
  PROVE  /\ Len(Cells(packet)) = Size(packet)
         /\ \A i \in 1..Size(packet) : Cells(packet)[i] = [of |-> packet, at |-> i]
  <1>1. Size(packet) \in 2..3 /\ Cells(packet) \in Seq(Cell)
    BY SizeType, CellsType
  <1>2. DOMAIN Cells(packet) = 1..Size(packet)
    BY DEF Cells
  <1> QED
    BY <1>1, <1>2 DEF Cells

(* Where the cells of the packets not parsed lie: not behind the last.     *)
LEMMA PlaceType ==
  ASSUME NEW packets \in Seq(Packets), NEW off, Offsets(off, packets),
         NEW parsed \in 0..Len(packets), NEW k \in parsed + 1..Len(packets),
         NEW j \in 1..Size(packets[k])
  PROVE  /\ Remaining(packets, parsed, off) \in Int
         /\ Place(off, parsed, k, j) \in Int
         /\ Place(off, parsed, k, j) <= Remaining(packets, parsed, off)
  <1> DEFINE m == Len(packets)
             size == Size(packets[k])
             a == off[k - 1]
             b == off[parsed]
             e == off[m]
  <1>1. m \in Nat /\ k \in 1..m /\ k - 1 \in 0..m /\ k \in 0..m
    OBVIOUS
  <1>2. size \in Nat /\ j \in Nat /\ j <= size
    BY SizeType
  <1>3. a \in Nat /\ b \in Nat /\ e \in Nat /\ off[k] <= e
    BY <1>1, OffsetsType
  <1>4. off[k] = a + size
    BY <1>1 DEF Offsets
  <1>5. Place(off, parsed, k, j) = a - b + j /\ Remaining(packets, parsed, off) = e - b
    BY DEF Place, Remaining
  <1> HIDE DEF a, b, e, m, size
  <1> QED
    BY <1>2, <1>3, <1>4, <1>5

(* When a packet has been parsed the others lie that much nearer.          *)
LEMMA PlaceNext ==
  ASSUME NEW packets \in Seq(Packets), NEW off, Offsets(off, packets),
         NEW parsed \in 0..Len(packets) - 1, NEW k \in (parsed + 1) + 1..Len(packets),
         NEW j \in 1..Size(packets[k])
  PROVE  Place(off, parsed + 1, k, j)
            = Place(off, parsed, k, j) - Size(packets[parsed + 1])
  <1> DEFINE n == Size(packets[parsed + 1])
             a == off[k - 1]
             b == off[parsed]
             b1 == off[parsed + 1]
  <1>1. /\ parsed + 1 \in 1..Len(packets) /\ (parsed + 1) - 1 = parsed
        /\ parsed \in 0..Len(packets) /\ k - 1 \in 0..Len(packets)
    OBVIOUS
  <1>2. off[parsed + 1] = off[(parsed + 1) - 1] + Size(packets[parsed + 1])
    BY <1>1 DEF Offsets
  <1>3. b1 = b + n
    BY <1>1, <1>2
  <1>4. a \in Int /\ b \in Int
    BY <1>1, OffsetsType
  <1>5. n \in Int /\ j \in Int
    BY SizeType
  <1>6. Place(off, parsed + 1, k, j) = a - b1 + j /\ Place(off, parsed, k, j) = a - b + j
    BY DEF Place
  <1> HIDE DEF n, a, b, b1
  <1>7. a - b1 + j = (a - b + j) - n
    BY <1>3, <1>4, <1>5
  <1> QED
    BY <1>6, <1>7 DEF n

(* A packet sent over a connection that has not been reset.                *)
LEMMA LaidSend ==
  ASSUME NEW cells \in Seq(Cell), NEW more \in Seq(Cell),
         NEW packets \in Seq(Packets), NEW packet \in Packets,
         NEW parsed \in 0..Len(packets), NEW off, Laid(cells, more, packets, parsed, off),
         Len(cells) + Len(more) = Remaining(packets, parsed, off)
  PROVE  \E longer :
            /\ Laid(cells, more \o Cells(packet), Append(packets, packet), parsed, longer)
            /\ Len(cells) + Len(more \o Cells(packet))
                  = Remaining(Append(packets, packet), parsed, longer)
  <1> DEFINE m == Len(packets)
             c == Len(cells)
             l == Len(more)
             n == Size(packet)
             longmore == more \o Cells(packet)
             longpackets == Append(packets, packet)
  <1>1. /\ m \in Nat /\ Len(longpackets) = m + 1 /\ longpackets[m + 1] = packet
        /\ \A k \in 1..m : longpackets[k] = packets[k]
    OBVIOUS
  <1>2. /\ Offsets(off, packets) /\ Lie(cells, 0, packets, parsed, off)
        /\ Lie(more, c, packets, parsed, off)
    BY DEF Laid
  <1>3. PICK longer :
          /\ Offsets(longer, longpackets)
          /\ \A k \in 0..m : longer[k] = off[k]
          /\ longer[m + 1] = off[m] + n
    BY <1>2, OffsetsGrow
  <1>4. /\ n \in 2..3 /\ Cells(packet) \in Seq(Cell) /\ Len(Cells(packet)) = n
        /\ \A i \in 1..n : Cells(packet)[i] = [of |-> packet, at |-> i]
    BY SizeType, CellsType, CellsOf
  <1>5. /\ c \in Nat /\ l \in Nat /\ Len(longmore) = l + n
        /\ \A p \in 1..l : longmore[p] = more[p]
    BY <1>4
  <1>6. \A p \in 1..n : longmore[l + p] = [of |-> packet, at |-> p]
    BY <1>4
  <1>7. /\ off[parsed] \in Nat /\ off[m] \in Nat
        /\ longer[parsed] = off[parsed] /\ longer[m] = off[m]
    <2>1. parsed \in 0..m /\ m \in 0..m
      BY <1>1
    <2>2. off[m] \in Nat /\ \A k \in 0..m : off[k] \in Nat
      BY <1>2, OffsetsType
    <2> HIDE DEF m
    <2> QED
      BY <1>3, <2>1, <2>2
  <1>8. c + l = off[m] - off[parsed]
    BY DEF Remaining
  <1> HIDE DEF longmore, longpackets
  <1>9. ASSUME NEW j \in 1..n
        PROVE  Place(longer, parsed, m + 1, j) = c + l + j
    <2>1. Place(longer, parsed, m + 1, j) = longer[m] - longer[parsed] + j
      <3>1. (m + 1) - 1 = m
        BY <1>1
      <3> QED
        BY <3>1 DEF Place
    <2> QED
      BY <1>7, <1>8, <2>1
  <1>10. ASSUME NEW k \in parsed + 1..m, NEW j \in 1..Size(packets[k])
         PROVE  /\ longpackets[k] = packets[k] /\ k \in 1..m
                /\ Place(longer, parsed, k, j) = Place(off, parsed, k, j)
                /\ Place(off, parsed, k, j) \in Int /\ Place(off, parsed, k, j) <= c + l
    <2>1. k \in 1..m /\ k - 1 \in 0..m
      BY <1>1
    <2>2. longer[k - 1] = off[k - 1]
      BY <1>3, <2>1
    <2> QED
      BY <1>1, <1>2, <1>7, <2>1, <2>2, PlaceType DEF Place
  <1>11. \A k \in parsed + 1..m + 1 : k = m + 1 \/ k \in parsed + 1..m
    BY <1>1
  <1>12. Lie(cells, 0, longpackets, parsed, longer)
    <2> SUFFICES ASSUME NEW k \in parsed + 1..m + 1, NEW j \in 1..Size(longpackets[k]),
                        Place(longer, parsed, k, j) - 0 \in 1..c
                 PROVE  cells[Place(longer, parsed, k, j) - 0] = [of |-> longpackets[k], at |-> j]
      BY <1>1 DEF Lie
    <2>1. k # m + 1
      <3>1. SUFFICES ASSUME k = m + 1 PROVE FALSE
        OBVIOUS
      <3>2. j \in 1..n /\ Place(longer, parsed, k, j) = c + l + j
        BY <1>1, <1>9, <3>1
      <3> HIDE DEF c, l, n
      <3> QED
        BY <1>4, <1>5, <3>2
    <2>2. k \in parsed + 1..m
      BY <1>11, <2>1
    <2>3. k \in 1..m /\ longpackets[k] = packets[k]
      BY <1>1, <2>2
    <2> QED
      BY <1>2, <1>10, <2>2, <2>3 DEF Lie
  <1>13. Lie(longmore, c, longpackets, parsed, longer)
    <2> SUFFICES ASSUME NEW k \in parsed + 1..m + 1, NEW j \in 1..Size(longpackets[k]),
                        Place(longer, parsed, k, j) - c \in 1..Len(longmore)
                 PROVE  longmore[Place(longer, parsed, k, j) - c]
                           = [of |-> longpackets[k], at |-> j]
      BY <1>1 DEF Lie
    <2>1. CASE k = m + 1
      <3>1. j \in 1..n /\ Place(longer, parsed, k, j) = c + l + j
        BY <1>1, <1>9, <2>1
      <3>2. Place(longer, parsed, k, j) - c = l + j
        <4> HIDE DEF c, l, n
        <4> QED
          BY <1>4, <1>5, <3>1
      <3> QED
        BY <1>1, <1>6, <2>1, <3>1, <3>2
    <2>2. CASE k # m + 1
      <3> DEFINE q == Place(off, parsed, k, j)
      <3>1. k \in parsed + 1..m /\ longpackets[k] = packets[k]
        BY <1>1, <1>11, <2>2
      <3>2. Place(longer, parsed, k, j) = q /\ q \in Int /\ q <= c + l
        BY <1>10, <3>1
      <3>3. q - c \in 1..Len(longmore)
        BY <3>2
      <3> HIDE DEF q
      <3>4. q - c \in 1..l
        <4> HIDE DEF c, l, n
        <4> QED
          BY <1>4, <1>5, <3>2, <3>3
      <3>5. more[q - c] = [of |-> packets[k], at |-> j]
        BY <1>2, <3>1, <3>4 DEF Lie, q
      <3> QED
        BY <1>5, <3>1, <3>2, <3>4, <3>5
    <2> QED
      BY <2>1, <2>2
  <1>14. c + Len(longmore) = Remaining(longpackets, parsed, longer)
    <2>1. Remaining(longpackets, parsed, longer) = (off[m] + n) - off[parsed]
      <3>1. Remaining(longpackets, parsed, longer) = longer[m + 1] - longer[parsed]
        BY <1>1 DEF Remaining
      <3>2. longer[m + 1] = off[m] + n /\ longer[parsed] = off[parsed]
        BY <1>3, <1>7, Zenon
      <3> QED
        BY <3>1, <3>2
    <2> DEFINE a == off[m]  b == off[parsed]  d == Len(longmore)
    <2>2. /\ a \in Nat /\ b \in Nat /\ n \in Nat /\ c \in Nat /\ l \in Nat
          /\ c + l = a - b /\ d = l + n
      BY <1>4, <1>5, <1>7, <1>8
    <2>3. Remaining(longpackets, parsed, longer) = (a + n) - b
      BY <2>1
    <2> HIDE DEF a, b, c, d, l, n
    <2>4. c + d = Remaining(longpackets, parsed, longer)
      BY <2>2, <2>3
    <2> QED
      BY <2>4 DEF c, d
  <1>15. Remaining(longpackets, parsed, longer) \in Int
    BY <1>4, <1>5, <1>14
  <1>16. Laid(cells, longmore, longpackets, parsed, longer)
    BY <1>3, <1>12, <1>13, <1>14, <1>15 DEF Laid
  <1> QED
    BY <1>14, <1>16 DEF longmore, longpackets

(* A chunk read.                                                           *)
LEMMA LaidRead ==
  ASSUME NEW cells \in Seq(Cell), NEW more \in Seq(Cell),
         NEW packets \in Seq(Packets), NEW n \in 1..Len(more),
         NEW parsed \in 0..Len(packets), NEW off, Laid(cells, more, packets, parsed, off)
  PROVE  /\ Laid(cells \o SubSeq(more, 1, n), SubSeq(more, n + 1, Len(more)),
                 packets, parsed, off)
         /\ Len(cells \o SubSeq(more, 1, n)) + Len(SubSeq(more, n + 1, Len(more)))
               = Len(cells) + Len(more)
  <1> DEFINE c == Len(cells)
             l == Len(more)
             read == cells \o SubSeq(more, 1, n)
             left == SubSeq(more, n + 1, l)
  <1>1. /\ c \in Nat /\ l \in Nat /\ n \in Nat /\ 1 <= n /\ n <= l
        /\ Len(read) = c + n /\ Len(left) = l - n
        /\ \A p \in 1..c : read[p] = cells[p]
        /\ \A p \in 1..n : read[c + p] = more[p]
        /\ \A p \in 1..Len(left) : left[p] = more[n + p]
    OBVIOUS
  <1>2. /\ Offsets(off, packets) /\ Lie(cells, 0, packets, parsed, off)
        /\ Lie(more, c, packets, parsed, off)
        /\ c + l <= Remaining(packets, parsed, off)
    BY DEF Laid
  <1> HIDE DEF read, left
  <1>3. Lie(read, 0, packets, parsed, off)
    <2> SUFFICES ASSUME NEW k \in parsed + 1..Len(packets),
                        NEW j \in 1..Size(packets[k]),
                        Place(off, parsed, k, j) - 0 \in 1..Len(read)
                 PROVE  read[Place(off, parsed, k, j) - 0] = [of |-> packets[k], at |-> j]
      BY DEF Lie
    <2> DEFINE q == Place(off, parsed, k, j)
    <2>1. q \in Int /\ q - 0 \in 1..c + n
      BY <1>1, <1>2, PlaceType
    <2>2. q - 0 \in 1..c => cells[q - 0] = [of |-> packets[k], at |-> j]
      BY <1>2 DEF Lie
    <2>3. q - c \in 1..l => more[q - c] = [of |-> packets[k], at |-> j]
      BY <1>2 DEF Lie
    <2> HIDE DEF q
    <2>4. \/ q - 0 \in 1..c
          \/ q - c \in 1..n /\ q - c \in 1..l /\ q - 0 = c + (q - c)
      <3> HIDE DEF c, l
      <3> QED
        BY <1>1, <2>1
    <2>5. read[q - 0] = [of |-> packets[k], at |-> j]
      BY <1>1, <2>2, <2>3, <2>4
    <2> QED
      BY <2>5 DEF q
  <1>4. Lie(left, Len(read), packets, parsed, off)
    <2> SUFFICES ASSUME NEW k \in parsed + 1..Len(packets),
                        NEW j \in 1..Size(packets[k]),
                        Place(off, parsed, k, j) - Len(read) \in 1..Len(left)
                 PROVE  left[Place(off, parsed, k, j) - Len(read)]
                           = [of |-> packets[k], at |-> j]
      BY DEF Lie
    <2> DEFINE q == Place(off, parsed, k, j)
    <2>1. q \in Int /\ q - (c + n) \in 1..l - n
      BY <1>1, <1>2, PlaceType
    <2>2. q - c \in 1..l => more[q - c] = [of |-> packets[k], at |-> j]
      BY <1>2 DEF Lie
    <2> HIDE DEF q
    <2>3. q - c \in 1..l /\ n + (q - (c + n)) = q - c
      <3> HIDE DEF c, l
      <3> QED
        BY <1>1, <2>1
    <2>4. left[q - (c + n)] = more[q - c]
      BY <1>1, <2>1, <2>3
    <2> QED
      BY <1>1, <2>2, <2>3, <2>4 DEF q
  <1>5. Len(read) + Len(left) = c + l
    <2> DEFINE r == Len(read)  s == Len(left)
    <2>1. r = c + n /\ s = l - n /\ c \in Nat /\ l \in Nat /\ n \in Nat
      BY <1>1
    <2> HIDE DEF r, s, c, l
    <2>2. r + s = c + l
      BY <2>1
    <2> QED
      BY <2>2 DEF r, s
  <1> QED
    BY <1>2, <1>3, <1>4, <1>5 DEF Laid, read, left

(* The first packet not parsed, cut out of the buffer.                     *)
LEMMA LaidTake ==
  ASSUME NEW cells \in Seq(Cell), NEW more \in Seq(Cell),
         NEW packets \in Seq(Packets), NEW parsed \in 0..Len(packets) - 1,
         NEW off, Laid(cells, more, packets, parsed, off),
         Size(packets[parsed + 1]) <= Len(cells)
  PROVE  LET n == Size(packets[parsed + 1])
             left == SubSeq(cells, n + 1, Len(cells))
         IN  /\ Laid(left, more, packets, parsed + 1, off)
             /\ Len(left) = Len(cells) - n
             /\ Remaining(packets, parsed + 1, off) = Remaining(packets, parsed, off) - n
  <1> DEFINE c == Len(cells)
             l == Len(more)
             n == Size(packets[parsed + 1])
             left == SubSeq(cells, n + 1, c)
  <1>1. /\ n \in 2..3 /\ n <= c /\ c \in Nat /\ l \in Nat /\ Len(packets) \in Nat
    BY SizeType
  <1> HIDE DEF n
  <1>2. Len(left) = c - n /\ \A p \in 1..Len(left) : left[p] = cells[n + p]
    BY <1>1
  <1>3. /\ Offsets(off, packets) /\ Lie(cells, 0, packets, parsed, off)
        /\ Lie(more, c, packets, parsed, off)
        /\ c + l <= Remaining(packets, parsed, off)
    BY DEF Laid
  <1> HIDE DEF left
  <1>4. /\ \A k \in 0..Len(packets) : off[k] \in Nat
        /\ off[parsed + 1] = off[parsed] + n
    <2>1. parsed + 1 \in 1..Len(packets) /\ (parsed + 1) - 1 = parsed
      BY <1>1
    <2>2. off[parsed + 1] = off[(parsed + 1) - 1] + Size(packets[parsed + 1])
      BY <1>3, <2>1 DEF Offsets
    <2> QED
      BY <1>3, <2>1, <2>2 DEF Offsets, n
  <1>5. Remaining(packets, parsed + 1, off) = Remaining(packets, parsed, off) - n
    BY <1>1, <1>4 DEF Remaining
  <1>6. ASSUME NEW k \in (parsed + 1) + 1..Len(packets), NEW j \in 1..Size(packets[k])
        PROVE  /\ k \in parsed + 1..Len(packets)
               /\ Place(off, parsed, k, j) \in Int
               /\ Place(off, parsed + 1, k, j) = Place(off, parsed, k, j) - n
    <2>1. k \in parsed + 1..Len(packets) /\ parsed \in 0..Len(packets)
      BY <1>1
    <2> QED
      BY <1>3, <2>1, PlaceType, PlaceNext DEF n
  <1>7. Lie(left, 0, packets, parsed + 1, off)
    <2> SUFFICES ASSUME NEW k \in (parsed + 1) + 1..Len(packets),
                        NEW j \in 1..Size(packets[k]),
                        Place(off, parsed + 1, k, j) - 0 \in 1..Len(left)
                 PROVE  left[Place(off, parsed + 1, k, j) - 0] = [of |-> packets[k], at |-> j]
      BY DEF Lie
    <2> DEFINE q == Place(off, parsed, k, j)
    <2>1. q \in Int /\ Place(off, parsed + 1, k, j) = q - n
      BY <1>6
    <2>2. q - 0 \in 1..c => cells[q - 0] = [of |-> packets[k], at |-> j]
      BY <1>3, <1>6 DEF Lie
    <2>3. (q - n) - 0 \in 1..c - n
      BY <1>2, <2>1
    <2> HIDE DEF q
    <2>4. q - 0 \in 1..c /\ n + ((q - n) - 0) = q - 0
      <3> HIDE DEF c
      <3> QED
        BY <1>1, <2>1, <2>3
    <2>5. left[(q - n) - 0] = cells[q - 0]
      BY <1>2, <2>3, <2>4
    <2> QED
      BY <2>1, <2>2, <2>4, <2>5
  <1>8. Lie(more, Len(left), packets, parsed + 1, off)
    <2> SUFFICES ASSUME NEW k \in (parsed + 1) + 1..Len(packets),
                        NEW j \in 1..Size(packets[k]),
                        Place(off, parsed + 1, k, j) - Len(left) \in 1..l
                 PROVE  more[Place(off, parsed + 1, k, j) - Len(left)]
                           = [of |-> packets[k], at |-> j]
      BY DEF Lie
    <2> DEFINE q == Place(off, parsed, k, j)
    <2>1. q \in Int /\ Place(off, parsed + 1, k, j) = q - n
      BY <1>6
    <2>2. q - c \in 1..l => more[q - c] = [of |-> packets[k], at |-> j]
      BY <1>3, <1>6 DEF Lie
    <2>3. (q - n) - (c - n) \in 1..l
      BY <1>2, <2>1
    <2> HIDE DEF q
    <2>4. (q - n) - (c - n) = q - c
      <3> HIDE DEF c
      <3> QED
        BY <1>1, <2>1
    <2> QED
      BY <1>2, <2>1, <2>2, <2>3, <2>4
  <1>9. Len(left) + l <= Remaining(packets, parsed + 1, off)
    <2> DEFINE r == Remaining(packets, parsed, off)  s == Len(left)
    <2>1. r \in Int
      BY <1>1, <1>4 DEF Remaining
    <2>2. s = c - n /\ c + l <= r /\ Remaining(packets, parsed + 1, off) = r - n
      BY <1>2, <1>3, <1>5
    <2> HIDE DEF c, l, r, s
    <2>3. s + l <= r - n
      BY <1>1, <2>1, <2>2
    <2> QED
      BY <2>2, <2>3 DEF s
  <1> QED
    BY <1>2, <1>3, <1>5, <1>7, <1>8, <1>9 DEF Laid, left, n

(* The cells that begin the buffer are those of the first packet not       *)
(* parsed.                                                                 *)
LEMMA LaidFirst ==
  ASSUME NEW cells \in Seq(Cell), NEW more \in Seq(Cell),
         NEW packets \in Seq(Packets), NEW parsed \in 0..Len(packets),
         NEW off, Laid(cells, more, packets, parsed, off), Len(cells) >= 1
  PROVE  /\ parsed < Len(packets)
         /\ \A i \in 1..Len(cells) : i <= Size(packets[parsed + 1])
               => cells[i] = [of |-> packets[parsed + 1], at |-> i]
  <1>1. Len(cells) \in Nat /\ Len(more) \in Nat /\ Len(packets) \in Nat
    OBVIOUS
  <1>2. /\ Offsets(off, packets) /\ Lie(cells, 0, packets, parsed, off)
        /\ Len(cells) + Len(more) <= Remaining(packets, parsed, off)
    BY DEF Laid
  <1>3. off[parsed] \in Nat
    BY <1>2 DEF Offsets
  <1>4. parsed # Len(packets)
    BY <1>1, <1>2, <1>3 DEF Remaining
  <1>5. parsed + 1 \in parsed + 1..Len(packets) /\ (parsed + 1) - 1 = parsed
    BY <1>1, <1>4
  <1>6. ASSUME NEW i \in 1..Len(cells), i <= Size(packets[parsed + 1])
        PROVE  cells[i] = [of |-> packets[parsed + 1], at |-> i]
    <2>1. i \in 1..Size(packets[parsed + 1])
      BY <1>6, SizeType
    <2>2. Place(off, parsed, parsed + 1, i) - 0 = i
      BY <1>3, <1>5 DEF Place
    <2> QED
      BY <1>2, <1>5, <2>1, <2>2 DEF Lie
  <1> QED
    BY <1>1, <1>4, <1>6

(* A packet parsed that is no touch.                                       *)
LEMMA PlacedPass ==
  ASSUME NEW touches \in Seq(Touches), NEW packets \in Seq(Packets),
         NEW parsed \in 0..Len(packets) - 1, NEW at, Placed(touches, packets, parsed, at),
         packets[parsed + 1] \notin Touches
  PROVE  Placed(touches, packets, parsed + 1, at)
  <1>1. Len(packets) \in Nat /\ parsed \in Nat
    OBVIOUS
  <1>2. 1..parsed \subseteq 1..parsed + 1
    BY <1>1
  <1>3. at \in [DOMAIN touches -> 1..parsed + 1]
    BY <1>2 DEF Placed
  <1>4. \A k \in 1..parsed + 1 : k # parsed + 1 => k \in 1..parsed
    BY <1>1
  <1> QED
    BY <1>3, <1>4 DEF Placed

(* A packet parsed whose touch is injected.                                *)
LEMMA PlacedTouch ==
  ASSUME NEW touches \in Seq(Touches), NEW packets \in Seq(Packets),
         NEW parsed \in 0..Len(packets) - 1, NEW at, Placed(touches, packets, parsed, at),
         NEW event \in Touches, packets[parsed + 1] = event
  PROVE  \E longer : Placed(Append(touches, event), packets, parsed + 1, longer)
  <1> DEFINE m == Len(touches)
             more == Append(touches, event)
             longer == [i \in 1..m + 1 |-> IF i = m + 1 THEN parsed + 1 ELSE at[i]]
  <1>1. /\ m \in Nat /\ parsed \in Nat /\ Len(more) = m + 1
        /\ DOMAIN touches = 1..m /\ DOMAIN more = 1..m + 1
        /\ more[m + 1] = event /\ \A i \in 1..m : more[i] = touches[i]
    OBVIOUS
  <1>2. \A i \in 1..m : at[i] \in 1..parsed
    BY <1>1 DEF Placed
  <1>3. \A i \in 1..m + 1 : i # m + 1 => i \in 1..m
    BY <1>1
  <1>4. longer[m + 1] = parsed + 1 /\ \A i \in 1..m : longer[i] = at[i]
    BY <1>1
  <1>5. longer \in [DOMAIN more -> 1..parsed + 1]
    <2>1. \A i \in 1..m + 1 : (IF i = m + 1 THEN parsed + 1 ELSE at[i]) \in 1..parsed + 1
      BY <1>1, <1>2, <1>3
    <2> QED
      BY <1>1, <2>1
  <1> HIDE DEF longer, more, m
  <1>6. \A i \in DOMAIN more : more[i] = packets[longer[i]]
    BY <1>1, <1>3, <1>4 DEF Placed
  <1>7. ASSUME NEW i \in DOMAIN more, NEW j \in DOMAIN more, i < j
        PROVE  longer[i] < longer[j]
    <2>1. i \in 1..m
      BY <1>1, <1>7
    <2>2. CASE j = m + 1
      BY <1>1, <1>2, <1>4, <2>1, <2>2
    <2>3. CASE j # m + 1
      <3>1. j \in 1..m
        BY <1>1, <1>3, <2>3
      <3> QED
        BY <1>1, <1>4, <1>7, <2>1, <3>1 DEF Placed
    <2> QED
      BY <2>2, <2>3
  <1>8. ASSUME NEW k \in 1..parsed + 1, packets[k] \in Touches
        PROVE  \E i \in DOMAIN more : longer[i] = k
    <2>1. CASE k = parsed + 1
      <3>1. m + 1 \in DOMAIN more
        BY <1>1
      <3> QED
        BY <1>4, <2>1, <3>1
    <2>2. CASE k # parsed + 1
      <3>1. k \in 1..parsed
        BY <1>1, <2>2
      <3>2. PICK i \in 1..m : at[i] = k
        BY <1>1, <1>8, <3>1 DEF Placed
      <3>3. i \in DOMAIN more
        BY <1>1
      <3> QED
        BY <1>4, <3>2, <3>3
    <2> QED
      BY <2>1, <2>2
  <1>9. Placed(more, packets, parsed + 1, longer)
    BY <1>5, <1>6, <1>7, <1>8 DEF Placed
  <1> QED
    BY <1>9 DEF more

-----------------------------------------------------------------------------
(* The steps keep the order.                                               *)

(* What concerns a connection has not changed, but for its reader's end.   *)
LEMMA OrderedStays ==
  ASSUME NEW c \in Clients, Ordered(c),
         sent'[c] = sent[c], injected'[c] = injected[c],
         \/ reader'[c] = "ended"
         \/ /\ reader[c] # "ended"
            /\ buf'[c] = buf[c] /\ wire'[c] = wire[c]
            /\ conn[c] = "reset" => conn'[c] = "reset"
            /\ running' # c => running # c
  PROVE  Ordered(c)'
  <1>1. PICK parsed \in 0..Len(sent[c]) :
          /\ \E at : Placed(injected[c], sent[c], parsed, at)
          /\ reader[c] # "ended" => \E off : Reads(c, parsed, off)
    BY DEF Ordered
  <1>2. ASSUME reader'[c] # "ended" PROVE \E off : Reads(c, parsed, off)'
    <2>1. PICK off : Reads(c, parsed, off)
      BY <1>1, <1>2
    <2>2. Reads(c, parsed, off)'
      BY <1>2, <2>1 DEF Reads
    <2> QED
      BY <2>2
  <1> QED
    BY <1>1, <1>2 DEF Ordered

LEMMA OrderStart == Init => OrderInv
  <1> SUFFICES ASSUME Init, NEW c \in Clients
               PROVE  Ordered(c)
    BY DEF Init, OrderInv
  <1> DEFINE none == [i \in 1..0 |-> 0]
             off == [k \in 0..0 |-> 0]
  <1>1. /\ sent[c] = <<>> /\ injected[c] = <<>> /\ buf[c] = <<>> /\ wire[c] = <<>>
        /\ Len(sent[c]) = 0
    BY DEF Init
  <1>2. Placed(<<>>, <<>>, 0, none)
    <2>1. DOMAIN <<>> = {} /\ 1..0 = {}
      OBVIOUS
    <2>2. none \in [{} -> 1..0]
      BY <2>1
    <2> HIDE DEF none
    <2> QED
      BY <2>1, <2>2 DEF Placed
  <1>3. Offsets(off, <<>>)
    BY DEF Offsets
  <1>4. Laid(<<>>, <<>>, <<>>, 0, off) /\ Remaining(<<>>, 0, off) = 0
    BY <1>3 DEF Laid, Lie, Remaining
  <1> HIDE DEF none, off
  <1>5. Reads(c, 0, off)
    BY <1>1, <1>4 DEF Reads
  <1> QED
    BY <1>1, <1>2, <1>5 DEF Ordered

LEMMA SendsOrdered ==
  ASSUME TypeOK, NEW c \in Clients, Sends(c), Ordered(c)
  PROVE  Ordered(c)'
  <1>1. PICK packet \in Packets :
          /\ sent' = [sent EXCEPT ![c] = Append(@, packet)]
          /\ wire' = [wire EXCEPT ![c] = @ \o Cells(packet)]
    BY DEF Sends
  <1>2. /\ conn[c] = "up" /\ reader[c] = "reading"
        /\ UNCHANGED <<running, reader, conn, buf, injected>>
    BY DEF Sends
  <1>3. /\ sent[c] \in Seq(Packets) /\ wire[c] \in Seq(Cell) /\ buf[c] \in Seq(Cell)
        /\ sent'[c] = Append(sent[c], packet) /\ wire'[c] = wire[c] \o Cells(packet)
    BY <1>1 DEF TypeOK
  <1>4. /\ Len(sent[c]) \in Nat /\ Len(sent'[c]) = Len(sent[c]) + 1
        /\ sent'[c][Len(sent[c]) + 1] = packet
        /\ \A k \in 1..Len(sent[c]) : sent'[c][k] = sent[c][k]
    BY <1>3
  <1>5a. PICK parsed \in 0..Len(sent[c]) : \E at, off :
          Placed(injected[c], sent[c], parsed, at) /\ Reads(c, parsed, off)
    BY <1>2 DEF Ordered
  <1>5. PICK at, off :
          Placed(injected[c], sent[c], parsed, at) /\ Reads(c, parsed, off)
    BY <1>5a
  <1>6. Placed(injected'[c], sent'[c], parsed, at)
    <2>1. \A k \in 1..parsed : k \in 1..Len(sent[c])
      BY <1>4
    <2>2. \A i \in DOMAIN injected[c] : at[i] \in 1..parsed
      BY <1>5 DEF Placed
    <2>3. injected' = injected
      BY <1>2
    <2> QED
      BY <1>4, <1>5, <2>1, <2>2, <2>3 DEF Placed
  <1>7. /\ Laid(buf[c], wire[c], sent[c], parsed, off)
        /\ Len(buf[c]) + Len(wire[c]) = Remaining(sent[c], parsed, off)
    BY <1>2, <1>5 DEF Reads
  <1>8. PICK longer :
          /\ Laid(buf[c], wire'[c], sent'[c], parsed, longer)
          /\ Len(buf[c]) + Len(wire'[c]) = Remaining(sent'[c], parsed, longer)
    <2>1. \E longer :
            /\ Laid(buf[c], wire[c] \o Cells(packet), Append(sent[c], packet), parsed, longer)
            /\ Len(buf[c]) + Len(wire[c] \o Cells(packet))
                  = Remaining(Append(sent[c], packet), parsed, longer)
      BY <1>3, <1>7, LaidSend, Zenon
    <2> QED
      BY <1>3, <2>1, Zenon
  <1>9. ASSUME running # c, parsed < Len(sent'[c])
        PROVE  Len(buf[c]) < Size(sent'[c][parsed + 1])
    <2>1. CASE parsed = Len(sent[c])
      <3>1. Offsets(off, sent[c])
        BY <1>7 DEF Laid
      <3>2. off[Len(sent[c])] \in Nat
        BY <1>3, <3>1, OffsetsType
      <3>3. Remaining(sent[c], parsed, off) = 0
        BY <2>1, <3>2 DEF Remaining
      <3>4. Len(buf[c]) < 1
        <4> DEFINE b == Len(buf[c])  w == Len(wire[c])
               total == Remaining(sent[c], parsed, off)
        <4>1. b \in Nat /\ w \in Nat
          BY <1>3
        <4>2. b + w = total
          BY <1>7
        <4>3. total = 0
          BY <3>3
        <4> HIDE DEF b, w, total
        <4>4. b < 1
          BY <4>1, <4>2, <4>3
        <4> QED
          BY <4>4 DEF b
      <3> QED
        BY <3>4, SizeType
    <2>2. CASE parsed # Len(sent[c])
      <3>1. parsed < Len(sent[c]) /\ parsed + 1 \in 1..Len(sent[c])
        BY <1>4, <2>2
      <3> QED
        BY <1>4, <1>5, <1>9, <3>1 DEF Reads
    <2> QED
      BY <2>1, <2>2
  <1>10. Reads(c, parsed, longer)'
    BY <1>2, <1>8, <1>9 DEF Reads
  <1>11. parsed \in 0..Len(sent'[c])
    BY <1>4
  <1> QED
    BY <1>6, <1>10, <1>11 DEF Ordered

LEMMA ReadOrdered ==
  ASSUME TypeOK, NEW c \in Clients, Read(c), Ordered(c)
  PROVE  Ordered(c)'
  <1>1. PICK n \in 1..Len(wire[c]) :
          /\ buf' = [buf EXCEPT ![c] = @ \o SubSeq(wire[c], 1, n)]
          /\ wire' = [wire EXCEPT ![c] = SubSeq(@, n + 1, Len(@))]
    BY DEF Read
  <1>2. /\ reader[c] = "reading" /\ running' = c
        /\ UNCHANGED <<reader, conn, sent, injected>>
    BY DEF Read
  <1>3. /\ sent[c] \in Seq(Packets) /\ wire[c] \in Seq(Cell) /\ buf[c] \in Seq(Cell)
        /\ buf'[c] = buf[c] \o SubSeq(wire[c], 1, n)
        /\ wire'[c] = SubSeq(wire[c], n + 1, Len(wire[c]))
    BY <1>1 DEF TypeOK
  <1>4a. PICK parsed \in 0..Len(sent[c]) : \E at, off :
          Placed(injected[c], sent[c], parsed, at) /\ Reads(c, parsed, off)
    BY <1>2 DEF Ordered
  <1>4. PICK at, off :
          Placed(injected[c], sent[c], parsed, at) /\ Reads(c, parsed, off)
    BY <1>4a
  <1>5. /\ Laid(buf'[c], wire'[c], sent[c], parsed, off)
        /\ Len(buf'[c]) + Len(wire'[c]) = Len(buf[c]) + Len(wire[c])
    <2>1. Laid(buf[c], wire[c], sent[c], parsed, off)
      BY <1>4 DEF Reads
    <2>2. /\ Laid(buf[c] \o SubSeq(wire[c], 1, n), SubSeq(wire[c], n + 1, Len(wire[c])),
                  sent[c], parsed, off)
          /\ Len(buf[c] \o SubSeq(wire[c], 1, n)) + Len(SubSeq(wire[c], n + 1, Len(wire[c])))
                = Len(buf[c]) + Len(wire[c])
      BY <1>3, <2>1, LaidRead, Zenon
    <2> QED
      BY <1>3, <2>2, Zenon
  <1>6. Reads(c, parsed, off)'
    BY <1>2, <1>4, <1>5 DEF Reads
  <1> QED
    BY <1>2, <1>4, <1>6 DEF Ordered

(* A packet is cut out only when it is whole, and an inner loop that       *)
(* pauses has none left.                                                   *)
LEMMA ScanOrdered ==
  ASSUME TypeOK, NEW c \in Clients, Scan(c), Ordered(c), WellFormed(c)
  PROVE  Ordered(c)'
  <1>1. /\ running = c /\ reader[c] = "reading" /\ UNCHANGED <<caller, conn, wire, sent>>
        /\ sent[c] \in Seq(Packets) /\ wire[c] \in Seq(Cell) /\ buf[c] \in Seq(Cell)
        /\ injected[c] \in Seq(Touches)
        /\ Len(sent[c]) \in Nat /\ Len(buf[c]) \in Nat /\ Len(wire[c]) \in Nat
    BY DEF Scan, TypeOK
  <1>2a. PICK parsed \in 0..Len(sent[c]) : \E at, off :
          Placed(injected[c], sent[c], parsed, at) /\ Reads(c, parsed, off)
    BY <1>1 DEF Ordered
  <1>2. PICK at, off :
          Placed(injected[c], sent[c], parsed, at) /\ Reads(c, parsed, off)
    BY <1>2a
  <1>3. Laid(buf[c], wire[c], sent[c], parsed, off)
    BY <1>2 DEF Reads
  <1>4. ASSUME Pause(c, buf[c]),
               parsed < Len(sent[c]) => Len(buf[c]) < Size(sent[c][parsed + 1])
        PROVE  Ordered(c)'
    <2>1. buf'[c] = buf[c] /\ UNCHANGED <<reader, injected>>
      BY <1>1, <1>4 DEF Pause, TypeOK
    <2>2. Reads(c, parsed, off)'
      BY <1>1, <1>2, <1>4, <2>1 DEF Reads
    <2> QED
      BY <1>1, <1>2, <2>1, <2>2 DEF Ordered
  <1>5. CASE Len(buf[c]) < 2
    <2>1. Pause(c, buf[c])
      BY <1>5 DEF Scan
    <2>2. ASSUME parsed < Len(sent[c]) PROVE Len(buf[c]) < Size(sent[c][parsed + 1])
      BY <1>1, <1>5, SizeType
    <2> QED
      BY <1>4, <2>1, <2>2
  <1>6. CASE Len(buf[c]) >= 2
    <2> DEFINE packet == sent[c][parsed + 1]
    <2>1. parsed < Len(sent[c]) /\ parsed + 1 \in 1..Len(sent[c])
      BY <1>1, <1>3, <1>6, LaidFirst
    <2>2. packet \in Packets /\ packet # "bad"
      BY <1>1, <2>1 DEF WellFormed
    <2>3. Size(packet) \in 2..3 /\ Claimed(packet) = Size(packet)
      BY <2>2, SizeType DEF Claimed, Size, Packets, Touches
    <2> HIDE DEF packet
    <2>4. /\ buf[c][1] = [of |-> packet, at |-> 1]
          /\ buf[c][2] = [of |-> packet, at |-> 2]
      <3>1. 1 \in 1..Len(buf[c]) /\ 2 \in 1..Len(buf[c]) /\ 1 <= Size(packet) /\ 2 <= Size(packet)
        BY <1>1, <1>6, <2>3
      <3>2. Len(buf[c]) >= 1
        BY <1>1, <1>6
      <3> QED
        BY <1>1, <1>3, <3>1, <3>2, LaidFirst DEF packet
    <2>5. Cut(c, Size(packet))
      <3>1. LengthAt(buf[c][2]) = {Size(packet)}
        BY <2>3, <2>4 DEF LengthAt
      <3>2. ~(Len(buf[c]) < 2)
        BY <1>1, <1>6
      <3> QED
        BY <3>1, <3>2 DEF Scan
    <2>6. CASE Len(buf[c]) < Size(packet)
      <3>1. Pause(c, buf[c])
        BY <2>3, <2>5, <2>6 DEF Cut
      <3> QED
        BY <1>4, <2>6, <3>1 DEF packet
    <2>7. CASE Size(packet) <= Len(buf[c])
      <3> DEFINE n == Size(packet)
                 cut == SubSeq(buf[c], 1, n)
                 left == SubSeq(buf[c], n + 1, Len(buf[c]))
      <3>1. Take(c, n)
        BY <1>1, <2>3, <2>5, <2>7 DEF Cut
      <3>2. buf'[c] = left
        BY <3>1 DEF Take, TypeOK
      <3>3. PICK event \in ParsePacket(cut) :
              IF event \in Touches THEN OnTouch(c, event)
              ELSE UNCHANGED <<device, running, reader, injected>>
        BY <3>1 DEF Take
      <3>4. Len(cut) = n /\ cut[1] = [of |-> packet, at |-> 1]
        BY <1>1, <2>3, <2>4, <2>7
      <3>5. event = IF packet \in Touches THEN packet ELSE "nothing"
        <4>1. CASE packet \in Touches
          <5>1. n = 3
            BY <4>1 DEF Size
          <5> QED
            BY <3>3, <3>4, <4>1, <5>1 DEF ParsePacket
        <4>2. CASE packet \notin Touches
          <5>1. n = 2
            BY <4>2 DEF Size
          <5> QED
            BY <3>3, <3>4, <4>2, <5>1 DEF ParsePacket
        <4> QED
          BY <4>1, <4>2
      <3>6. parsed \in 0..Len(sent[c]) - 1 /\ parsed + 1 \in 0..Len(sent[c])
        BY <1>1, <2>1
      <3>7. /\ Laid(left, wire[c], sent[c], parsed + 1, off)
            /\ Len(left) = Len(buf[c]) - n
            /\ Remaining(sent[c], parsed + 1, off) = Remaining(sent[c], parsed, off) - n
        <4>2. Size(sent[c][parsed + 1]) <= Len(buf[c])
          BY <2>7 DEF packet
        <4>3. /\ sent[c] \in Seq(Packets) /\ wire[c] \in Seq(Cell) /\ buf[c] \in Seq(Cell)
              /\ Laid(buf[c], wire[c], sent[c], parsed, off)
          BY <1>1, <1>3
        <4> QED
          BY <3>6, <4>2, <4>3, LaidTake DEF packet
      <3> HIDE DEF n, cut, left
      <3>8. n \in 2..3
        BY <2>3 DEF n
      <3>9. conn[c] # "reset" =>
              Len(left) + Len(wire[c]) = Remaining(sent[c], parsed + 1, off)
        <4>1. conn[c] # "reset" =>
                Len(buf[c]) + Len(wire[c]) = Remaining(sent[c], parsed, off)
          BY <1>2 DEF Reads
        <4> DEFINE total == Remaining(sent[c], parsed, off)
                   next == Remaining(sent[c], parsed + 1, off)
                   b == Len(buf[c])  w == Len(wire[c])  l == Len(left)
        <4>2. /\ conn[c] # "reset" => b + w = total
              /\ l = b - n /\ next = total - n /\ b \in Nat /\ w \in Nat
          BY <1>1, <3>7, <4>1
        <4> HIDE DEF total, next, b, w, l
        <4>3. ASSUME conn[c] # "reset" PROVE l + w = next
          <5>1. b + w = total /\ l = b - n /\ next = total - n /\ b \in Nat /\ w \in Nat
            BY <4>2, <4>3
          <5> QED
            BY <3>8, <5>1
        <4> QED
          BY <4>3 DEF next, l, w
      <3>10. ASSUME running' = c PROVE Reads(c, parsed + 1, off)'
        BY <1>1, <3>2, <3>7, <3>9, <3>10 DEF Reads
      <3>11. CASE packet \notin Touches
        <4>1. UNCHANGED <<device, running, reader, injected>>
          <5>1. "nothing" \notin Touches
            BY DEF Touches
          <5> QED
            BY <3>3, <3>5, <3>11, <5>1
        <4>2. Placed(injected[c], sent[c], parsed + 1, at)
          BY <1>1, <1>2, <3>6, <3>11, PlacedPass DEF packet
        <4> QED
          BY <1>1, <3>6, <3>10, <4>1, <4>2 DEF Ordered
      <3>12. CASE packet \in Touches
        <4>1. OnTouch(c, packet)
          BY <3>3, <3>5, <3>12
        <4>2. CASE pointer = "open"
          <5>1. /\ injected'[c] = Append(injected[c], packet)
                /\ UNCHANGED <<running, reader>>
            BY <4>1, <4>2 DEF OnTouch, TypeOK
          <5>2. \E longer : Placed(injected'[c], sent[c], parsed + 1, longer)
            BY <1>1, <1>2, <3>6, <3>12, <5>1, PlacedTouch DEF packet
          <5> QED
            BY <1>1, <3>6, <3>10, <5>1, <5>2 DEF Ordered
        <4>3. CASE pointer # "open"
          <5>1. reader'[c] = "ended" /\ injected' = injected
            BY <4>1, <4>3 DEF OnTouch, TypeOK
          <5> QED
            BY <1>1, <5>1, OrderedStays
        <4> QED
          BY <4>2, <4>3
      <3> QED
        BY <3>11, <3>12
    <2> QED
      BY <1>1, <2>3, <2>6, <2>7
  <1> QED
    BY <1>1, <1>5, <1>6

LEMMA DialStep == TypeOK /\ DialInv /\ [Next]_vars => DialInv'
  <1> SUFFICES ASSUME TypeOK, DialInv, [Next]_vars PROVE DialInv'
    OBVIOUS
  <1> USE DEF TypeOK, DialInv
  <1>1. CASE UNCHANGED <<reader, conn>>
    BY <1>1
  <1>2. CASE Exit
    BY <1>2 DEF Exit
  <1>3. ASSUME NEW c \in Clients, Read(c) \/ Sends(c) PROVE DialInv'
    BY <1>3 DEF Read, Sends
  <1>4. ASSUME NEW c \in Clients, Scan(c) PROVE DialInv'
    <2>1. conn' = conn
      BY <1>4 DEF Scan
    <2>2. reader' = reader \/ reader' = [reader EXCEPT ![c] = "ended"]
      BY <1>4 DEF Scan, Cut, Pause, Take, OnTouch
    <2>3. running = c /\ reader[c] = "reading"
      BY <1>4 DEF Scan
    <2> QED
      BY <2>1, <2>2, <2>3
  <1>5. ASSUME NEW c \in Clients, SinkGone(c) \/ Connects(c) \/ Leaves(c) PROVE DialInv'
    BY <1>5 DEF SinkGone, Connects, Leaves
  <1> QED
    BY <1>1, <1>2, <1>3, <1>4, <1>5
       DEF Next, Finished, vars, Reader, Sink, Caller, CreatePointer, StartServer,
           EnableUibc, CastEnds, StopTouch

(* What the caller does, and what happens to another connection, leaves    *)
(* this one as it is, but that the end of the program ends its reader.     *)
LEMMA OrderStep == TypeOK /\ DialInv /\ OrderInv /\ [Next]_vars => OrderInv'
  <1> SUFFICES ASSUME TypeOK, DialInv, OrderInv, [Next]_vars, NEW c \in Clients
               PROVE  WellFormed(c)' => Ordered(c)'
    BY DEF OrderInv
  <1>1. /\ conn[c] = "none" => reader[c] = "none"
        /\ WellFormed(c) => Ordered(c)
    BY DEF OrderInv, DialInv
  <1>2. ASSUME sent'[c] = sent[c], injected'[c] = injected[c],
               \/ reader'[c] = "ended"
               \/ /\ reader[c] # "ended"
                  /\ buf'[c] = buf[c] /\ wire'[c] = wire[c]
                  /\ conn[c] = "reset" => conn'[c] = "reset"
                  /\ running' # c => running # c
        PROVE  WellFormed(c)' => Ordered(c)'
    <2>1. WellFormed(c)' => WellFormed(c)
      BY <1>2 DEF WellFormed
    <2> QED
      BY <1>1, <1>2, <2>1, OrderedStays
  <1>3. CASE UNCHANGED vars
    <2>1. /\ UNCHANGED <<running, reader, conn, wire, buf, sent, injected>>
      BY <1>3 DEF vars, streams
    <2>2. WellFormed(c)' <=> WellFormed(c)
      BY <2>1 DEF WellFormed
    <2>3. Ordered(c)' <=> Ordered(c)
      BY <2>1 DEF Ordered, Reads
    <2> QED
      BY <1>1, <2>1, <2>2, <2>3
  <1>4. CASE Caller
    <2>1. ASSUME UNCHANGED <<running, reader, conn, streams, injected>>
          PROVE  WellFormed(c)' => Ordered(c)'
      <3>1. UNCHANGED <<running, reader, conn, wire, buf, sent, injected>>
        BY <2>1 DEF streams
      <3> QED
        BY <1>1, <3>1 DEF WellFormed, Ordered, Reads
    <2>2. CASE Exit
      <3>1. /\ UNCHANGED <<running, conn, wire, buf, sent, injected>>
            /\ reader'[c] = IF reader[c] = "none" THEN "none" ELSE "ended"
        BY <2>2 DEF Exit, streams
      <3>2. \/ reader'[c] = "ended"
            \/ reader'[c] = "none" /\ reader[c] = "none"
        BY <3>1
      <3> QED
        BY <1>2, <3>1, <3>2
    <2>3. CASE ~Exit
      <3>1. UNCHANGED <<running, reader, conn, streams, injected>>
        BY <1>4, <2>3
           DEF Caller, CreatePointer, StartServer, EnableUibc, CastEnds, StopTouch
      <3> QED
        BY <2>1, <3>1
    <2> QED
      BY <2>2, <2>3
  <1>5. ASSUME NEW d \in Clients, Reader(d) \/ Sink(d), d # c
        PROVE  WellFormed(c)' => Ordered(c)'
    <2>1. /\ sent'[c] = sent[c] /\ injected'[c] = injected[c] /\ reader'[c] = reader[c]
          /\ buf'[c] = buf[c] /\ wire'[c] = wire[c] /\ conn'[c] = conn[c]
          /\ running' # c => running # c
      <3> USE <1>5 DEF TypeOK, caller, device, streams, LoopFree
      <3>1. CASE Read(d)
        BY <3>1, ClientsAssumption DEF Read
      <3>2. CASE Scan(d)
        <4>1. /\ running = d /\ UNCHANGED <<caller, conn, wire, sent>>
              /\ \/ \E rest : Pause(d, rest)
                 \/ \E length : Take(d, length)
          BY <3>2 DEF Scan, Cut
        <4>2. CASE \E rest : Pause(d, rest)
          BY <4>1, <4>2 DEF Pause
        <4>3. CASE \E length : Take(d, length)
          BY <4>1, <4>3 DEF Take, OnTouch
        <4> QED
          BY <4>1, <4>2, <4>3
      <3>3. CASE SinkGone(d)
        BY <3>3 DEF SinkGone
      <3>4. CASE Connects(d)
        BY <3>4 DEF Connects
      <3>5. CASE Sends(d)
        BY <3>5 DEF Sends
      <3>6. CASE Leaves(d)
        BY <3>6 DEF Leaves
      <3> QED
        BY <3>1, <3>2, <3>3, <3>4, <3>5, <3>6 DEF Reader, Sink
    <2>2. WellFormed(c)' <=> WellFormed(c)
      BY <2>1 DEF WellFormed
    <2>3. CASE reader[c] = "ended"
      BY <1>2, <2>1, <2>3
    <2>4. CASE reader[c] # "ended"
      BY <1>2, <2>1, <2>4
    <2> QED
      BY <2>3, <2>4
  <1>6. CASE Reader(c) \/ Sink(c)
    <2>1. CASE Read(c)
      <3>1. reader[c] = "reading" /\ UNCHANGED <<reader, sent>>
        BY <2>1 DEF Read
      <3>2. WellFormed(c)' => WellFormed(c)
        BY <3>1 DEF WellFormed
      <3> QED
        BY <1>1, <2>1, <3>1, <3>2, ReadOrdered
    <2>2. CASE Scan(c)
      <3>1. sent' = sent /\ reader[c] = "reading" /\ reader'[c] # "none"
        <4>1. reader[c] = "reading" /\ sent' = sent
          BY <2>2 DEF Scan, TypeOK
        <4>2. reader' = reader \/ reader' = [reader EXCEPT ![c] = "ended"]
          BY <2>2 DEF Scan, Cut, Pause, Take, OnTouch
        <4> QED
          BY <4>1, <4>2 DEF TypeOK
      <3>2. WellFormed(c)' => WellFormed(c)
        BY <3>1 DEF WellFormed
      <3> QED
        BY <1>1, <2>2, <3>1, <3>2, ScanOrdered
    <2>3. CASE SinkGone(c)
      <3>1. reader'[c] = "ended" /\ UNCHANGED <<sent, injected>>
        BY <2>3 DEF SinkGone, streams, TypeOK
      <3> QED
        BY <1>2, <3>1
    <2>4. CASE Connects(c)
      <3>1. /\ reader[c] = "none" /\ conn[c] # "reset"
            /\ UNCHANGED <<running, buf, wire, sent, injected>>
        BY <1>1, <2>4 DEF Connects, streams
      <3> QED
        BY <1>2, <3>1
    <2>5. CASE Sends(c)
      <3>1. reader'[c] = "reading"
        BY <2>5 DEF Sends
      <3>2. WellFormed(c)' => WellFormed(c)
        <4>1. PICK packet \in Packets : sent' = [sent EXCEPT ![c] = Append(@, packet)]
          BY <2>5 DEF Sends
        <4>2. sent[c] \in Seq(Packets) /\ sent'[c] = Append(sent[c], packet)
          BY <4>1 DEF TypeOK
        <4>3. /\ DOMAIN sent[c] \subseteq DOMAIN sent'[c]
              /\ \A i \in DOMAIN sent[c] : sent'[c][i] = sent[c][i]
          BY <4>2
        <4> QED
          BY <4>3 DEF WellFormed
      <3> QED
        BY <1>1, <2>5, <3>1, <3>2, SendsOrdered
    <2>6. CASE Leaves(c)
      <3>1. /\ conn[c] = "up" /\ UNCHANGED <<running, reader, buf, sent, injected>>
            /\ wire'[c] = wire[c] \/ (conn'[c] = "reset" /\ wire'[c] = <<>>)
        BY <2>6 DEF Leaves, TypeOK
      <3>2. WellFormed(c)' => WellFormed(c)
        BY <3>1 DEF WellFormed
      <3>3. CASE wire'[c] = wire[c] \/ reader[c] = "ended"
        BY <1>2, <3>1, <3>3
      <3>4. ASSUME conn'[c] = "reset", wire'[c] = <<>>, Ordered(c) PROVE Ordered(c)'
        <4>1. PICK parsed \in 0..Len(sent[c]) :
                /\ \E at : Placed(injected[c], sent[c], parsed, at)
                /\ reader[c] # "ended" => \E off : Reads(c, parsed, off)
          BY <3>4 DEF Ordered
        <4>2. ASSUME NEW off, Reads(c, parsed, off) PROVE Reads(c, parsed, off)'
          <5>1. Laid(buf[c], wire[c], sent[c], parsed, off)
            BY <4>2 DEF Reads
          <5>2. Laid(buf[c], <<>>, sent[c], parsed, off)
            <6>1. /\ Len(buf[c]) \in Nat /\ Len(wire[c]) \in Nat /\ sent[c] \in Seq(Packets)
                  /\ Len(sent[c]) \in Nat
              BY DEF TypeOK
            <6>2. Remaining(sent[c], parsed, off) \in Int
              <7>1. Offsets(off, sent[c])
                BY <5>1 DEF Laid
              <7> QED
                BY <6>1, <7>1, OffsetsType DEF Remaining
            <6>3. Len(buf[c]) + Len(<<>>) <= Remaining(sent[c], parsed, off)
              <7>1. Len(buf[c]) + Len(wire[c]) <= Remaining(sent[c], parsed, off)
                BY <5>1 DEF Laid
              <7>2. Len(<<>>) = 0
                OBVIOUS
              <7> DEFINE got == Len(buf[c])
                         rest == Len(wire[c])
                         left == Remaining(sent[c], parsed, off)
              <7>3. got \in Nat /\ rest \in Nat /\ left \in Int /\ got + rest <= left
                BY <6>1, <6>2, <7>1
              <7> HIDE DEF got, rest, left
              <7>4. got + 0 <= left
                BY <7>3
              <7> QED
                BY <7>2, <7>4 DEF got, left
            <6>4. Lie(<<>>, Len(buf[c]), sent[c], parsed, off)
              BY DEF Lie
            <6> QED
              BY <5>1, <6>3, <6>4 DEF Laid
          <5> QED
            BY <3>1, <3>4, <4>2, <5>2 DEF Reads
        <4> QED
          BY <3>1, <4>1, <4>2 DEF Ordered
      <3> QED
        BY <1>1, <3>1, <3>2, <3>3, <3>4
    <2> QED
      BY <1>6, <2>1, <2>2, <2>3, <2>4, <2>5, <2>6 DEF Reader, Sink
  <1> QED
    BY <1>3, <1>4, <1>5, <1>6 DEF Next, Finished

(* The inductive invariant of the order of touches.                        *)
THEOREM OrderCorrect == Spec => [](DialInv /\ OrderInv)
  <1>1. Init => DialInv
    BY DEF Init, DialInv
  <1> QED
    BY <1>1, OrderStart, DialStep, OrderStep, TypeCorrect, PTL DEF Spec

(* However the stream of a connection is cut into chunks, _on_client of    *)
(* input/uibc.py injects its touches in the order in which they were sent, *)
(* each once, and none waits for the one after it: for any set of          *)
(* connections and any number of packets.                                  *)
THEOREM InTheirOrder == Spec => []TouchesInOrder
  <1>1. TypeOK /\ OrderInv => TouchesInOrder
    <2> SUFFICES ASSUME TypeOK, OrderInv, NEW c \in Clients, WellFormed(c)
                 PROVE  \E at \in [DOMAIN injected[c] -> TouchesAt(c)] :
            /\ \A i \in DOMAIN at : injected[c][i] = sent[c][at[i]]
            /\ \A i, j \in DOMAIN at : i < j => at[i] < at[j]
            /\ \A k \in TouchesAt(c) : ReadAll(c) \/ (\E i \in DOMAIN at : k < at[i])
                                       => \E i \in DOMAIN at : at[i] = k
      BY DEF TouchesInOrder
    <2>1a. PICK parsed \in 0..Len(sent[c]) :
            /\ \E at : Placed(injected[c], sent[c], parsed, at)
            /\ reader[c] # "ended" => \E off : Reads(c, parsed, off)
      BY DEF OrderInv, Ordered
    <2>1. PICK at :
            /\ Placed(injected[c], sent[c], parsed, at)
            /\ reader[c] # "ended" => \E off : Reads(c, parsed, off)
      BY <2>1a
    <2>2. /\ sent[c] \in Seq(Packets) /\ injected[c] \in Seq(Touches)
          /\ buf[c] \in Seq(Cell) /\ Len(sent[c]) \in Nat /\ Len(buf[c]) \in Nat
      BY DEF TypeOK
    <2>3. DOMAIN at = DOMAIN injected[c] /\ \A i \in DOMAIN at : at[i] \in 1..parsed
      BY <2>1 DEF Placed
    <2>4. at \in [DOMAIN injected[c] -> TouchesAt(c)]
      <3>1. \A i \in DOMAIN at : at[i] \in DOMAIN sent[c]
        BY <2>2, <2>3
      <3>2. \A i \in DOMAIN at : injected[c][i] \in Touches /\ injected[c][i] = sent[c][at[i]]
        BY <2>1, <2>2, <2>3 DEF Placed
      <3>3. \A i \in DOMAIN at : at[i] \in TouchesAt(c)
        BY <3>1, <3>2 DEF TouchesAt
      <3> QED
        BY <2>1, <2>3, <3>3 DEF Placed
    <2>5. ASSUME ReadAll(c) PROVE parsed = Len(sent[c])
      <3>1. SUFFICES ASSUME parsed < Len(sent[c]) PROVE FALSE
        BY <2>2
      <3>2. PICK off : Reads(c, parsed, off)
        BY <2>1, <2>5 DEF ReadAll
      <3>3. /\ Len(buf[c]) + Len(wire[c]) = Remaining(sent[c], parsed, off)
            /\ Len(buf[c]) < Size(sent[c][parsed + 1]) /\ Offsets(off, sent[c])
        BY <2>5, <3>1, <3>2 DEF Reads, ReadAll, Laid
      <3>4. Len(wire[c]) = 0
        BY <2>5 DEF ReadAll
      <3>5. /\ off[parsed + 1] = off[parsed] + Size(sent[c][parsed + 1])
            /\ off[parsed + 1] <= off[Len(sent[c])]
            /\ off[parsed] \in Nat /\ off[Len(sent[c])] \in Nat
        <4>1. /\ parsed + 1 \in 1..Len(sent[c]) /\ (parsed + 1) - 1 = parsed
              /\ parsed + 1 \in 0..Len(sent[c])
          BY <2>2, <3>1
        <4>2. off[parsed + 1] = off[(parsed + 1) - 1] + Size(sent[c][parsed + 1])
          BY <3>3, <4>1 DEF Offsets
        <4> QED
          BY <2>2, <3>3, <4>1, <4>2, OffsetsType
      <3> DEFINE b == Len(buf[c])  n == Size(sent[c][parsed + 1])
                 total == off[Len(sent[c])]  done == off[parsed]
      <3>6. b \in Nat /\ n \in Nat /\ total \in Nat /\ done \in Nat
        BY <2>2, <3>5, SizeType
      <3>7. b < n /\ done + n <= total
        BY <3>3, <3>5
      <3>8. b + 0 = total - done
        BY <3>3, <3>4 DEF Remaining
      <3> HIDE DEF b, n, total, done
      <3> QED
        BY <3>6, <3>7, <3>8
    <2>6. ASSUME NEW k \in TouchesAt(c), ReadAll(c) \/ (\E i \in DOMAIN at : k < at[i])
          PROVE  \E i \in DOMAIN at : at[i] = k
      <3>1. k \in 1..Len(sent[c]) /\ sent[c][k] \in Touches
        BY <2>2 DEF TouchesAt
      <3>2. k \in 1..parsed
        BY <2>3, <2>5, <2>6, <3>1
      <3> QED
        BY <2>1, <2>3, <3>1, <3>2 DEF Placed
    <2> QED
      BY <2>1, <2>3, <2>4, <2>6 DEF Placed
  <1> QED
    BY <1>1, OrderCorrect, TypeCorrect, PTL
=============================================================================
