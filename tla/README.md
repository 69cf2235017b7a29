# vilya in TLA+

vilya is a Miracast (Wi-Fi Display) *source*: it finds a sink over Wi-Fi Direct,
forms a P2P group with it, waits for the sink's RTSP connection, negotiates a
session (M1-M7), and then runs a GStreamer pipeline that sends the desktop over
RTP, with an optional touch back-channel (UIBC).  This directory is its
verification project: TLA+ modules translated from the source, TLC runs on small
instances, and proofs checked by TLAPS.

## The system

| component | source | state | operations | hard parts |
|---|---|---|---|---|
| RTSP session | `vilya/rtsp/session.py` | session state, CSeq, pending futures, keepalive task, receive task | serve, handshake, dispatch, keepalive, teardown | three kinds of task on one loop, timeouts against late answers, EOF at any point |
| caller | `vilya/__main__.py` `cmd_connect` | what has been acquired, the poll loop | acquire in order, poll, release in `finally` | partial failure, Ctrl-C and SIGTERM during any await, cleanup order |
| RTSP messages | `vilya/rtsp/message.py` | the receive buffer | feed, take_message, parse, format | a message in several chunks, resynchronisation after a malformed one |
| P2P over wpa_supplicant | `vilya/p2p/supplicant.py` | peer table, group future, group | find, wait_for_peer, connect, disconnect, signal handlers | signals of an earlier attempt, asynchronous handlers, retries |
| P2P over NetworkManager | `vilya/p2p/nm.py` | peer table, active connection, addresses | the same | activation state read against its signal |
| DHCP server | `vilya/p2p/dhcp.py` | leases, next address | offer, ack, nak | retransmissions, the end of the pool |
| WFD information element | `vilya/p2p/wfd_ie.py` | none | build, parse | byte layout |
| media pipeline | `vilya/media/pipeline.py` | the gst-launch child | start, poll, stop | child that outlives its parent |
| audio routing | `vilya/media/audio.py` | PulseAudio's default sink and modules | setup, teardown | state outside the process |
| portal / KWin capture | `vilya/media/portal.py`, `kwin_screencast.py` | capture session, PipeWire node | open, close | events against timeouts, fallback of one to the other |
| UIBC, pointer | `vilya/input/uibc.py`, `uinput.py` | client connections, the uinput device | on_client, press, move, release, close | input after close, a client lost mid-press |
| window | `vilya/ui/app.py` | scan and connect child processes | rescan, connect, disconnect, quit | child process signals, single instance |
| video modes | `vilya/modes.py` | none (a table) | | |
| setup commands | `vilya/__main__.py` `cmd_setup_*` | files under the home directory | | plain file I/O |

The caller owns everything else: it opens a P2P backend, waits for a peer and a
group, hands the sink an address if it is group owner, opens the capture, calls
`WFDSession.serve`, and then polls the session every 0.2 s.  The session reports
to it only through `state`; the sink reaches the session only through the TCP
connection; wpa_supplicant and NetworkManager through D-Bus signals; the window
runs `vilya scan` and `vilya connect` as child processes and reads their output.

The hazards this structure brings are listed, line by line, in `PROJECT.json`
("hazards"), with the properties that would catch each going wrong.

## The modules

| module | models | checked by |
|---|---|---|
| `CastSession` | the abstract cast: channel, stream and caller, no protocol | refined by `WFDSession` |
| `WFDSession` | `rtsp/session.py` and the serve / poll / teardown part of `cmd_connect` | `MCWFDSession` with three `.cfg` files |
| `P2PDiscovery` | the search and the table of peers, of both backends, and `cmd_scan` | `MCP2PDiscovery.cfg` |
| `P2PGroup` | `connect`, `disconnect` and the signal handlers of `p2p/supplicant.py`, and the three attempts of `cmd_connect` | `MCP2PGroup.cfg` |
| `NMActivation` | the same of `p2p/nm.py` | in `SinkAddress` |
| `DHCPServer` | `p2p/dhcp.py` and its clients | in `SinkAddress` |
| `SinkAddress` | `NMActivation` and `DHCPServer`, composed by the part of `cmd_connect` that learns where to cast to | `MCSinkAddress.cfg` |
| `Connect` | what `cmd_connect` acquires, holds and releases on every path | in `Capture`; `MCConnectFinally.cfg` |
| `Capture` | `Connect`, with KWin's virtual output and the portal's requests taken apart | `MCCapture.cfg` |
| `RTSPFraming` | `RTSPBuffer` of `rtsp/message.py` under the receive loop | `MCRTSPFraming` |
| `UIBCTouch` | `input/uibc.py`, the pointer of `input/uinput.py`, and the part of `cmd_connect` that brings them up and ends them | `MCUIBCTouch.cfg` |
| `CastWindow` | `ui/app.py` and its two child processes | `MCCastWindow.cfg` |
| `WFDSession_proofs`, `P2PDiscovery_proofs`, `P2PGroup_proofs`, `SinkAddress_proofs`, `Capture_proofs`, `CastWindow_proofs`, `UIBCTouch_proofs`, `RTSPFraming_proofs` | theorems about the module each is named after | TLAPS |

### WFDSession

One action is what a task does between two awaits.  `pc` is where the main task
is (handshake M1 to M5, the poll loop, `enable_uibc`, teardown); `recv` is the
receive task; `ka` the keepalive tasks, one per PLAY, of which `kaCur` is the one
`_keepalive_task` refers to.  `call[t]` is the request that task `t` awaits in
`_request` and the answer its future has been given; `pending` is `_pending`,
which is a separate variable because the two can disagree (an answer is popped by
`_dispatch` before the task runs; a send that raises leaves an entry).

Two facts about asyncio are built in.  Handling a chunk does not yield: all its
messages (`inbox`) are dispatched before any other task runs, so a task woken by
the first sees the effect of the last.  And a ready task runs before the loop
reads the socket again (`Woken`).  A reply that fails (`ReplyFails`) ends the
receive loop like an end of file.

The sink answers in order or not at all, may ask anything it has been invited to,
may ask twice, and may close or reset at any point; a reset loses what is under
way.  Timeouts may fire at any point of an await, also when the answer is already
on the wire.  Ctrl-C cancels the main task at any await (`Interrupt`); SIGTERM
ends the loop and cancels every task (`Terminate`).  Not modelled: the contents of
messages, response codes (the code ignores them but for M14's log line) and
`connect()`, which only the tests use.

`CastSession` says what is left when the protocol is taken out: the channel comes
up once, the picture streams only over a channel that is up or with a caller who
is leaving, and who leaves, leaves with the stream stopped.  `ImplementsCast` is
its whole specification, fairness included, under a refinement mapping.

### P2PDiscovery

`air` is what the daemon has, `peers` what the program has listed; between them
are the signals and answers on the `bus`, in order, and the `_add_peer` tasks that
wait for them.  A task carries the name it has read, which may be old by the time
it writes the table: `overtaken` records the peers whose loss was reported while
they were being read, because the task puts them back.  The two backends differ
in where find starts (an empty table and a scan; a snapshot of what
NetworkManager has, one await per peer), in who tells of a loss (only
wpa_supplicant), and in the second request for the information element.  `event`
is the `asyncio.Event`: `StartsWaiting` is one action, because nothing is awaited
between the look at the table and the clear.  `Leave` is a Ctrl-C, or an error of
D-Bus, at any await.  Names are kept only as far as the substring looked for is in
them or not.

### P2PGroup

A group is named by the attempt that formed it, `air` is what wpa_supplicant is
really doing for each attempt, and `bus` holds the replies and signals not yet
received: a failure or a group may be reported long after its attempt has been
given up.  `finishing` are the `_finish_group` tasks between the signal and the
interface name; their D-Bus replies come in the order of their calls, so they end
in that order.  The failure signal carries no attempt in the code either; `of` is
there only for the model to say what the code cannot know.

`disconnect` has two awaits: it introspects the group and then calls it.  Between
them another group may be reported; either may fail, which the code logs and
forgets the group all the same (`DisconnectFails`); and an interrupt may come at
either, or in the rest of the finally clause before them (`Interrupted`).
`outcome` records which it was: the properties say what holds in each case, and
that in no other a known group survives.

### NMActivation, DHCPServer and SinkAddress

`act` is NetworkManager's view of each activation, `active` the one path the
program remembers.  The state of an activation reaches `fut` by the signal, if
`listening`, or by the answer to the read, whichever comes first; `reading` and
`bus` let a change fall before, between or after the two.  `disconnect` forgets the
path whether its call succeeds, fails (the error is swallowed) or is interrupted;
`outcome` records which.  What a retry or a failed `disconnect` has forgotten is left
to NetworkManager: the activation is bound to the program's bus connection, and
`EndBound` lets it end with that.  That it does is NetworkManager's promise, and no
property is stated of it.

Datagrams are a set of what has been sent: each may be received any number of
times, in any order, or never.  A client may first ask for an address it had
elsewhere (`Reclaim`), is refused, and starts again; it may renew without naming
an address.  Addresses are counted from the start of the pool, as many as there
are clients: the type invariant says that this many are enough, which is the
property of `_next_ip` (the code never compares it with the end of the pool).

`SinkAddress` joins them through `ip`, our role in the group: as its client we
know the sink's address, as its owner the first lease decides it.

### Connect

Every resource `cmd_connect` acquires either exists (`live`) or not, and either
has a variable that the finally clause looks at (`held`) or not; an object that is
assigned before it is opened is `held` early.  Whatever statement is broken off,
its effect may or may not have happened (`Abort`).  The first Ctrl-C is kept
(`pending`) until the next statement that really waits; SIGTERM and a second
Ctrl-C raise where they are.  A step of the finally clause that is broken off
skips those after it (`cut`), because KeyboardInterrupt and CancelledError are not
`Exception`s.  The group is one resource here: which group it is, and what becomes
of an abandoned formation, is the subject of P2PGroup.

A step of the cleanup may also fail to release what it is for (`MayRemain`): either
of the two calls of pactl, and `disconnect` of either backend, which swallows its
error.  `failed` is what has remained in this way.  The other steps swallow errors
too, but end what they are for whatever fails: `close` of KWin's output and
`teardown` of the session close their writer behind the `except Exception`, the
portal disconnects from the bus, the pipeline is killed.  A pactl that is no longer
installed when it is wanted again (`FileNotFoundError`, which `audio.teardown` does
not catch) is left out.

### Capture

`Connect` has the two ways to capture a screen as the statements `kwin` and
`portal`.  `Capture` extends it and puts what they do in their place: the registry
and the stream of KWin's protocol, read event by event, and the three requests of
the portal, each a subscription, a call, its reply and its `Response`, which may
overtake the reply.  The compositor and the portal go on when the program has
left: an output that was asked for is made unless its connection has gone, and a
dialog that nobody waits for may still be granted (`owed`).  All of `Connect`'s
properties are checked on the composition; its disagreement needs nothing of
it and is shown on `Connect` alone.

### CastWindow

The window's state is what its handlers look at: the two buttons, the list,
`_streaming` and the two `QProcess`es, each with the phase its child is really in.
A child that has exited is noticed by an event of its own, after its output has
been read.  A SIGTERM is abstracted to the phase it sends the child to
(`Interrupted`); what the child's cleanup does is `Connect`'s subject.  `posted` is
the rescan a `showEvent` puts into the event queue.  Not modelled: a `QProcess` that
cannot be started at all, which emits no `finished` (the interpreter it starts is the
one the window runs in), and a line with STREAMING that is read in two parts.

### UIBCTouch

Every connection has a `reader`, the task of `_on_client`.  Its inner loop awaits
nothing: `running` names the reader that is in it, and until it leaves the loop
nothing else of the program takes a step, which is why an inner loop that never
ended would be the end of the session and of the cleanup too.  The stream is cut
into cells of two octets, of which the second holds the length.  A sink may claim
a length below four octets: the buffer is then dropped, the next chunk may begin
in the middle of a packet, and whatever lies where its length is looked for is
taken for one (`LengthAt`, `ParsePacket`: any outcome).

`uibc.stop()` closes the listener and no connection.  A reader that is left writes
into a closed device, which raises an OSError that ends its task; that the number
of the closed descriptor might be given to something else in between is not
modelled.  `held` is FALSE if `_start_uibc` failed half-way: the pointer, and the
listener, are then in use until the program ends.  A device that is destroyed
releases its button, by the kernel.  Coordinates, and with them the mapping of the
sink's screen onto an output, are left out.

### RTSPFraming

The stream is a sequence of tokens, with CR and LF as tokens of their own so that
a chunk may end between them.  The reference is `Meant`: what each item of the
stream stands for, without any framing.  Ten kinds of item: messages with a body and
without, a stray CRLF, what does not parse (a first line, a header, a header that
cannot be decoded), and the three that are `BadlyFramed`, after which `take_message`
does not find the next item where it begins: a body behind a Content-Length that is
not a number (which counts as none), a body behind a header that cannot be decoded
(of which only the header is dropped), and a negative Content-Length.  `SliceEnd` is
Python's slice, for which an end below zero counts from the end of the buffer and no
further than its beginning; `Deficit` is how far below zero the length is.

So three things are said, of three sets of streams.  `DispatchedAsSent`: whatever the
stream, all is well up to the first badly framed item.  `InStepAfterNext`: a body left
in the buffer costs the item behind it and no other.  `AllDispatched`: without a
negative length everything is read in the end.  What the code says beyond these it
does not do (below).  Left out: header folding, and a
Content-Length that is a natural number but not the length of the body.

## The runs

| run | bounds | shows |
|---|---|---|
| `session` | SETUP and PLAY twice, TEARDOWN once, CSeq up to 7 | the safety of the session; about 2.1 million states |
| `session_fair` | one request of each kind, CSeq up to 5 | its liveness, and the refinement |
| `session_sink_teardown` | as `session_fair`; the sink does not answer after its TEARDOWN | a disagreement, below |
| `p2p_discovery` | two peers, two changes of what the daemon has, either backend and command | no wakeup is lost, the table is current, a search ends, and takes a peer that is listed while it waits even as the wait times out; about 200 000 states |
| `p2p_group` | three attempts, as in the code | no group that has been reported is forgotten, or survives a `disconnect` that neither failed nor was interrupted; attempts end; about 35 000 states |
| `sink_address` | two clients, two attempts | the activation of the cast is taken down unless the call fails or is broken off, and the cast goes to the one client that has the address; about 316 000 states |
| `connect` | two interrupts, module `Capture` | cleanup on every path, and the two captures; about 240 000 states |
| `connect_finally` | the same, module `Connect` | a disagreement, below |
| `window` | two SIGTERMs per child | the window is never left without a way on, and a cast told to end ends |
| `touch` | two connections, two packets in all | touches are injected in order and at once, the button is down only for whom it should be, the packet loop gives way; about 240 000 states |
| `rtsp_framing` | up to three items of ten kinds, a body of three tokens, a length of minus nine | the framing, for every way of cutting the stream, and what a badly framed item costs; about 144 000 states |
| `rtsp_negative_length` | one item, a length of minus 99 | a disagreement, below |

Why these bounds are enough.  *Session*: the handshake takes CSeq 1 to 4, so CSeq
up to 7 leaves three requests to share among keepalives, M14 and the trigger, and
with them a timeout whose answer comes while the next request waits.  Two PLAYs
are what it takes for a second keepalive task to replace a first one; OPTIONS and
OTHER have no effect beyond their reply, and are exercised in the smaller runs.
The properties about one sink message crossing another task need one of each.
*Discovery*: two peers let one be found while the other is being read or waited
for, and two changes let a peer come and go, or be renamed, during one read; with
three changes (two million states) nothing else is found.
*P2PGroup*: three attempts is the code's own number, not a bound.  *Sink address*:
two attempts are what it takes for a path to be overwritten (the code makes
three); two clients are what it takes to contend for one address.  *Window*: the
second SIGTERM breaks off the cleanup the first began, and a third finds the child
gone.  *Connect*: the
first interrupt leads into the cleanup and the second breaks it off; a third finds
nothing that a second does not.  *Touch*: two packets are
a press over one connection and another event over the other, or a bad length with
a touch behind it; three over two connections, or four over one, find nothing
else.  *Framing*: what is kept in the buffer between
messages is a stray CRLF or part of one message; three items give a message with
something before it and something after it, and a badly framed item with the one it
spoils and the one behind that.  With a length of minus nine the end of the message
lies, by turns, behind the header, inside it and before the buffer.

### Fairness

`FairSpec` of WFDSession assumes of the code only what an event loop does by
itself: ready tasks run and timers expire (`MainStep`, `LoopStep`, and the end of
a keepalive's wait).  Nothing is assumed of the sink, the user or the pipeline, so
`SinkCloseEndsSession` and `TeardownCompletes` hold with a sink that never answers.
`P2PGroup` adds that wpa_supplicant answers a method call, and not that a
negotiation ever ends.  `Connect` assumes that statements without an await run,
that a pending cancellation is raised, and that the awaits of the cleanup end:
the RTSP trigger has a timeout of ten seconds, the others are single calls to
local services.  `Capture` adds nothing: neither the compositor nor the portal
need ever answer, and the liveness property speaks of an interrupted cast only.
`P2PDiscovery` assumes that the event loop runs, that the daemon answers a request
and that the deadline comes, and not that a peer does.  `SinkAddress` assumes the
same of NetworkManager and, for the lease alone, that a client keeps asking and that
a datagram sent again and again arrives.  `CastWindow` assumes that Qt delivers every event and that a scan
and a cleanup end, and nothing of the user or of a cast.  `UIBCTouch` assumes that the
inner loop of the reader that has the turn goes on, and nothing of sinks.  `RTSPFraming` assumes
that what the network holds is read and that the inner loop goes on.

### Disagreements between the code and what it says

* `session_sink_teardown`: the answer to M5 and a TEARDOWN in one chunk.  The
  handler sets TEARDOWN, the woken handshake overwrites it with SETUP_WAIT, and
  the caller polls until the sink also closes TCP.
* `connect_finally`: one SIGTERM during the cleanup skips the rest of it.
* `rtsp_negative_length`: "take_message() already consumed the bad bytes"
  (`session.py:231`), but with a Content-Length of, say, -99999 it has deleted
  nothing, and the receive loop, which awaits nothing before the next attempt, takes
  the same bytes for ever: no other task runs again.

Two more are the exceptions that a property makes, rather than runs of their own.

* `UpGroupKnown` speaks of groups that have been reported: a negotiation that nobody
  waits for any more still forms its group, which `disconnect` ("Tear down the P2P
  group, if one was formed") does not know of.  The shortest behaviour is a Ctrl-C
  during the formation.
* `InStepAfterNext` excepts the item behind a body left in the buffer: "Consume the
  garbage so callers can resync on the next message" (`message.py:230`), but only the
  header of the garbage is consumed; a body behind it is taken for the beginning of
  the next message, which is lost too.

## What is proved

Every theorem holds for all values of the constants; the only assumptions are the
named ones on the constants, in the modules that declare them.

**The session** (`WFDSession_proofs`), for any bounds on what the sink sends, any
number of keepalives and either kind of sink.  `TypeCorrect` first; then
`ChannelGone`: once the receive loop has seen the connection go, the session is in
TEARDOWN and stays there.  `ChannelGoneIsFinal` is not inductive: a handshake step
that is about to set the next state could follow the end of the receive loop.
`ChannelInv` adds why it cannot.  The loop ends only between chunks, when every
woken task has run, so that no answer is left for the handshake to act upon; between
two awaits of the handshake (`Busy`) the receive loop is running and no chunk is
being dispatched; and before the sink has dialled in there is no loop.

`AnswersMatched` and `PendingIsExact` are about requests that several tasks have
outstanding at once.  What makes a late answer harmless is that a CSeq stands for
one request for ever: `AnswersInv` says that every question the sink has still to
answer, and every answer under way, has a number the source has given out, and that
whoever made the request of that number asked for what is answered.  `StreamInv` is
the sink's side of the protocol, told of the two places where a message of it can
be, the chunk being dispatched and the wire, read as one sequence (`Stream`): no
PLAY before a SETUP was answered, one PLAY at a time, and nothing but answers behind
a TEARDOWN; so there is a keepalive task for every PLAY.  `TasksInv` says
which tasks may be waiting at all, because a task that is cancelled or times out has
to take its own future out, and `PendingInv` adds to `PendingExact` the direction that
holds without a connection too: a future somebody awaits is in `_pending`.

**How the session ends** (at the end of `WFDSession_proofs`): `TornDownStays`,
`KeepaliveLives`, `ReaderForRequests` and `CastImplemented`.  A PLAY may set STREAMING
again while `teardown` waits for its trigger; `TornInv` says that a session torn down
before its caller leaves was torn down by a sink that has nothing but answers under
way, and that nobody takes it out of TEARDOWN while the caller leaves without a
receive loop.  `ServingInv` is about the order of the answer to M5 and the SETUP it
triggers: the answer comes first, and the receive loop reads on only when it has taken
the handshake to its end, so that nothing plays while the source still serves.
`ReaderInv` says that whoever watches the cast has a reader, or has had one that saw
the end; and that where there never was one no keepalive is left to ask anything.
`CastImplemented` is `Spec => Cast!Init /\ [][Cast!Next]_(Cast!vars)`: by these
invariants every step of the protocol is a step of the abstract cast or none of its
business.

**The search** (`P2PDiscovery_proofs`), for any set of peers and any number of
announcements: `TypeCorrect` and `WakeupNotLost`.  That no wakeup
is lost is inductive with hardly more than itself: listing a peer and setting the
event are one step, and the event is cleared only beside an empty look.
`TableFollows` is what the table is worth.  Over wpa_supplicant (`GhostInv`): once the
signal of a loss has been handled, and overtook nothing, nothing that is being read
lists the peer again.  Over NetworkManager (`ListedInv`): whatever is there is in the
table, in the snapshot still to be added, or has a signal or a read under way that
will list it (`Coming`); each hand-over from one to the next is one step.

**The group** (`P2PGroup_proofs`): `TypeCorrect` and `UpGroupKept`, for the three
attempts of the code.  `NewestInv` says that a group that is up is the newest of all
that have been started: its signal is the last of its kind on the bus, then its task
the last of those that finish a group, so that when it has been reported nothing is
under way that could take its place; `FreshInv`, that nothing is reported of an
attempt whose group has not formed.  Of a program that has ended the theorem says:
unless an error or an interrupt ended `disconnect`, only a group that came up while
`disconnect` was taking down another is left.

**The sink's address** (`SinkAddress_proofs`: what every step of `NMActivation` keeps,
what every step of `DHCPServer` keeps, and what follows of the two together), for any
number of attempts and any finite set of clients: `TypeCorrect`, `StateNotMissed`,
`TakenDown`, `Distinct` and `ReachesOne`.
`RepliesInv` says that an attempt's call is answered once, while the caller waits
for it or has left, so that no attempt takes an earlier one's path for its own;
`PathInv` that the path kept is the one whose group was returned (so that `TakenDown`
needs nothing but that the call succeeds); `StateInv` that a
state read back as "activating" is still so, or has its end's signal on the way.
`LeasesInv` says that addresses are given out in order, to one client each and for
good, and that no offer or grant in the air disagrees with the table, which is why
late and repeated datagrams do no harm.  `TypeOK` includes that the addresses given
out are as many as the clients that have one; its proof counts them.

**The cleanup** (`Capture_proofs`), for any number of interrupts:
`CaptureImplementsConnect` shows that every step of `Capture` is a step of `Connect`
or leaves it unchanged, and so carries over what is proved of `Connect`'s steps:
`LeftOnlyByCut` (with what a release failed at, `failed`, named apart: an error that
is swallowed skips nothing) and `ConsumersGoFirst`.  `CleanupInv` says that a cleanup that has
come to a step has done those before it (but for the channel, which teardown may
leave to the end of the program); `ConsumerInv` that the pipeline is held only
after the output it reads, and that the caller has a variable for both listener
and pointer or for neither, which is what makes the order of the cleanup enough.

**The two captures** (also in `Capture_proofs`), for any number of interrupts:
`CaptureTyped`, `NoResponseMissed` and `OnlyOneCapture`.  `RequestInv` says that the
portal is asked nothing before its turn, and that a Response which has not been heard
is still to come, to a handler that is there; `OutputInv`, that KWin has an output for
us only between our asking and its saying that there is none, so that who turns to the
portal has either not asked or read that.

**The window** (`CastWindow_proofs`), for any number of signals: `WayOn` and
`StartsAlone`, from `WindowInv`: a scan's list is empty until it is done, what can
be cast to can be clicked, and only a child streams.

**Touch** (`UIBCTouch_proofs`), for any set of connections and any number of
packets: `TypeCorrect` and `PressOwned`.  That somebody is in the middle of a press
while the button is down (`OwnerInv`) is inductive because a press outlasts every
event but an up (`PressLasts`); the quiet after the close needs that the button is
down only on an open device and that a device cmd_connect holds is not open after
the finally clause's stop (`DeviceInv`).  `InTheirOrder` is about the packet loop:
however a well-formed stream is cut into chunks, `TouchesInOrder` holds.  `OrderInv` says
of each connection how many of its packets have been parsed, at which of their places
the touches injected are (`Placed`), and that what has not been parsed lies in the
buffer and on the wire, cell for cell, at the offsets the packets' lengths add up to
(`Laid`, of which the end of a reset connection loses a tail); a reader that waits has
less of the next packet than its length.

**Framing** (`RTSPFraming_proofs`), for streams of any number of items, cut in any
way, any length of body and any negative length: `FramingTyped` and `AsSent`, the
latter from `NoneWaits` and `OnlyWhatWasSent`, its two halves.
None of these is inductive: they say what has been dispatched, and
`take_message` decides by what lies in the buffer.  `FramingInv` joins the two.  Up to
the first badly framed item (`InStep`), for some k (`Reached`), the buffer and what is
unread are together the items behind the first k, and what was dispatched is what
those k meant; and unless the inner loop is running the buffer is shorter than the
next item, so that the reader never waits while it holds a message.  From there on
(`Past`) only what was dispatched before is known, and that the buffer is still a part
of the stream.  The work is in the step of `TakeMessage`: stray CRLFs are
items of their own, so that `Strip` moves k by as many as it drops; the first blank
line of what is left ends the header of item k + 1, as no header has one inside; and
the length found in that header is that of its body.  What holds of a stream of any
length is shown by induction over its items, on sets of naturals, from the
well-foundedness of `<`.

Every invariant used in a proof has also been checked by TLC on a small instance:
those of the session, and its step-by-step refinement, over its 2.1 million states,
of the search over 197 000, of the captures over 240 000, of touch over 237 000, of
the framing over 144 000 (`Behind` as the suffix it says), of the sink's address over
316 000 and of the group over 35 000.

Every invariant the runs check is so proved, but for `InStepAfterNext`.  Only
model-checked: that one; everything about liveness, which is out of TLAPS's reach,
with it the fairness half of `ImplementsCast`, `LoopGivesWay`, `ListedTaken`, and that
what was sent is dispatched in the end (`AllDispatched`; that nothing else ever is, is
proved up to the first badly framed item).

## Not modelled

The WFD information element and the video modes (tables), the GStreamer command
line, the Wayland wire format, the text of RTSP messages, the setup commands
(plain file I/O) and `tools/sanitize_pcap.py` (a script over files).

Of modules that are modelled in part: touch coordinates; the port of a second SETUP,
which the caller reads once; the stale
PulseAudio modules that `AudioRoute` unloads at its start; the portal's restore
token; the volume of what gst-launch writes to stderr; the window's single-instance
probe, which is a race of two processes; and `connect()` of the session, which only
the tests use.

Limits of the code that the models show and no property forbids: the audio route is
set up before the `try` of `cmd_connect`, and stays in place when a GStreamer element
is missing or the backend cannot be opened; nothing waits for
M2, though a state is named after it; a peer that NetworkManager has lost stays
listed, and so does a peer of wpa_supplicant that was lost while it was being read;
wpa_supplicant's peers of an earlier scan are not asked for; only a
`RuntimeError` of KWin falls back to the portal, any other error ends the cast;
`disconnect` forgets a group whose call has failed, with the group still up; a button
pressed over a connection that is lost stays pressed; a pointer and a listener of a
`_start_uibc` that failed have no variable, and live as long as the program; a send
that fails leaves its future in `_pending`; and `teardown` of a session that has ended
leaves its socket to the end of the process.

## Plan

1. `Backend`: what `cmd_connect` asks of either backend, as an abstract
   specification that `P2PGroup` and `NMActivation` implement (a group is recorded
   before it is returned, and forgotten by `disconnect`, released or not).
2. `AudioRoute`: the default sink, and the modules of an earlier run.

Theorems planned: that each backend implements `Backend`.
