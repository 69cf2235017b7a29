---------------------------- MODULE RTSPFraming ----------------------------
(***************************************************************************)
(* RTSPBuffer (rtsp/message.py) under the receive loop of rtsp/session.py: *)
(* how messages are cut out of a TCP stream that arrives in chunks.        *)
(*                                                                         *)
(* The stream is a sequence of tokens.  CR and LF are tokens of their own, *)
(* so that a chunk may end between them; a line's text is one token.       *)
(***************************************************************************)
EXTENDS Integers, Sequences, SequencesExt, FiniteSetsExt

CONSTANTS
    Wires,       \* the sequences of items a sink may send
    BodyLength,  \* the length of the body of a message that has one
    Deficit      \* how far below zero a negative Content-Length is

(* After these take_message does not find the next message where the sink  *)
(* began it: it leaves a body in the buffer, or takes too little or too    *)
(* much of it.                                                             *)
LeavesBody == {"unreadable_length_and_body", "undecodable_and_body"}
BadlyFramed == LeavesBody \cup {"negative_length"}

Items == {"request", "response", "request_and_body", "stray", "bad_start",
          "bad_header_and_body", "undecodable"} \cup BadlyFramed

ASSUME WiresAssumption == Wires \subseteq Seq(Items)
ASSUME BodyLengthAssumption == BodyLength \in Nat \ {0}
ASSUME DeficitAssumption == Deficit \in Nat \ {0}

Toks == {"request", "response", "cr", "lf", "header", "length", "length_unreadable",
         "length_negative", "text", "junk", "no_colon", "not_utf8"}

CRLF == <<"cr", "lf">>
Blank == <<"cr", "lf", "cr", "lf">>    \* the end of the last line, and an empty one
Starts == {"request", "response"}      \* first lines that parse
Messages == [start : Starts, body : Seq(Toks)]

Body == [i \in 1..BodyLength |->
            IF i = BodyLength THEN "lf" ELSE IF i = BodyLength - 1 THEN "cr" ELSE "text"]

(* What a sink puts on the wire: messages, a stray CRLF between them,      *)
(* messages that do not parse, and those whose Content-Length is not a     *)
(* number, is negative, or stands in a header that cannot be decoded.      *)
HeaderOf(item) ==
    CASE item = "request" -> <<"request", "cr", "lf", "header">>
      [] item = "response" -> <<"response">>
      [] item = "request_and_body" -> <<"request", "cr", "lf", "length">>
      [] item = "bad_start" -> <<"junk">>
      [] item = "bad_header_and_body" ->
            <<"request", "cr", "lf", "no_colon", "cr", "lf", "length">>
      [] item = "undecodable" -> <<"request", "cr", "lf", "not_utf8">>
      [] item = "undecodable_and_body" ->
            <<"request", "cr", "lf", "not_utf8", "cr", "lf", "length">>
      [] item = "unreadable_length_and_body" ->
            <<"request", "cr", "lf", "length_unreadable">>
      [] item = "negative_length" -> <<"request", "cr", "lf", "length_negative">>
BodyOf(item) ==
    IF item \in LeavesBody \cup {"request_and_body", "bad_header_and_body"} THEN Body ELSE <<>>
Tokens(item) == IF item = "stray" THEN CRLF ELSE HeaderOf(item) \o Blank \o BodyOf(item)

Stream(wire) == FlattenSeq([i \in DOMAIN wire |-> Tokens(wire[i])])

VARIABLES
    wire,       \* what the sink sends
    unread,     \* the tokens not yet read from the socket
    buf,        \* RTSPBuffer._buf
    taking,     \* the receive loop is in its inner loop
    dispatched  \* the messages handed to _dispatch

vars == <<wire, unread, buf, taking, dispatched>>

Init ==
    /\ wire \in Wires
    /\ unread = Stream(wire)
    /\ buf = <<>> /\ taking = FALSE /\ dispatched = <<>>

-----------------------------------------------------------------------------
(* take_message: the message it returns, and  the buffer it leaves.        *)

Drop(b, n) == SubSeq(b, n + 1, Len(b))

(* Mutant: only one stray CRLF is tolerated. *)
StripOne(b) == IF IsPrefix(CRLF, b) THEN Drop(b, 2) ELSE b

(* Stray CRLFs between messages are ignored. *)
Strip(b) ==
    LET leading == {n \in 0..(Len(b) \div 2) :
                       2 * n + 2 > Len(b) \/ SubSeq(b, 2 * n + 1, 2 * n + 2) # CRLF}
    IN  Drop(b, 2 * Min(leading))

HeaderEnds(b) == {i \in 1..Len(b) - 3 : SubSeq(b, i, i + 3) = Blank}

HasToken(header, token) == \E i \in DOMAIN header : header[i] = token
HasField(header, token) == \E i \in 2..Len(header) : header[i] = token

(* What int() makes of a Content-Length line; a value it refuses counts as *)
(* no value.  The first line of a header is no such line.                  *)
ContentLength(header) ==
    IF HasField(header, "length") THEN BodyLength
    ELSE IF HasField(header, "length_negative") THEN -Deficit
    ELSE 0

(* parse_message of what was cut out: one message, or none if malformed. *)
Parse(header, body) ==
    IF header = <<>> THEN <<>>
    ELSE IF Head(header) \notin Starts \/ HasField(header, "no_colon") THEN <<>>
    ELSE <<[start |-> Head(header), body |-> body]>>

(* How much b[:n] is of b when n <= Len(b): a negative n counts from the   *)
(* end, and no further than the beginning.                                 *)
SliceEnd(b, n) == IF n >= 0 THEN n ELSE IF Len(b) + n >= 0 THEN Len(b) + n ELSE 0

(* take_message returns None, and the inner loop is left; or a message was *)
(* cut out, dispatched or, if malformed, logged, and the loop goes on.     *)
NeedMore(b) == buf' = b /\ taking' = FALSE /\ UNCHANGED dispatched
Took(msgs, rest) == buf' = rest /\ taking' = TRUE /\ dispatched' = dispatched \o msgs

(* Mutant: what is cut out stays in the buffer, and the rest of it goes. *)
CutOutRest(b, headerEnd, messageEnd) ==
    \E end \in {SliceEnd(b, messageEnd)} :
        Took(IF end < headerEnd + 3 THEN <<>>
             ELSE Parse(SubSeq(b, 1, headerEnd - 1), SubSeq(b, headerEnd + 4, end)),
             SubSeq(b, 1, end))

(* b[:message_end] is deleted from the buffer and parsed; without the      *)
(* whole empty line it has no header.                                      *)
CutOut(b, headerEnd, messageEnd) ==
    \E end \in {SliceEnd(b, messageEnd)} :
        Took(IF end < headerEnd + 3 THEN <<>>
             ELSE Parse(SubSeq(b, 1, headerEnd - 1), SubSeq(b, headerEnd + 4, end)),
             Drop(b, end))

(* Mutant: the header is enough. *)
CutEarly(b, headerEnd) ==
    \E header \in {SubSeq(b, 1, headerEnd - 1)} :
        IF HasToken(header, "not_utf8") THEN Took(<<>>, Drop(b, headerEnd + 3))
        ELSE CutOut(b, headerEnd, Min({Len(b), headerEnd + 3 + ContentLength(header)}))

(* Mutant: what cannot be decoded stays in the buffer. *)
CutNothing(b, headerEnd) ==
    \E header \in {SubSeq(b, 1, headerEnd - 1)} :
    \E messageEnd \in {headerEnd + 3 + ContentLength(header)} :
        IF HasToken(header, "not_utf8") THEN Took(<<>>, b)
        ELSE IF Len(b) < messageEnd THEN NeedMore(b)
        ELSE CutOut(b, headerEnd, messageEnd)

(* Mutant: what cannot be decoded takes the whole buffer with it. *)
CutAll(b, headerEnd) ==
    \E header \in {SubSeq(b, 1, headerEnd - 1)} :
    \E messageEnd \in {headerEnd + 3 + ContentLength(header)} :
        IF HasToken(header, "not_utf8") THEN Took(<<>>, <<>>)
        ELSE IF Len(b) < messageEnd THEN NeedMore(b)
        ELSE CutOut(b, headerEnd, messageEnd)

(* The header is complete: drop it if it cannot be decoded, wait for the   *)
(* body, or cut the message out.                                           *)
Cut(b, headerEnd) ==
    \E header \in {SubSeq(b, 1, headerEnd - 1)} :
    \E messageEnd \in {headerEnd + 3 + ContentLength(header)} :
        IF HasToken(header, "not_utf8") THEN Took(<<>>, Drop(b, headerEnd + 3))
        ELSE IF Len(b) < messageEnd THEN NeedMore(b)
        ELSE CutOut(b, headerEnd, messageEnd)

-----------------------------------------------------------------------------
(* _recv_loop.                                                             *)

(* Mutant: a chunk replaces what was left of the one before. *)
FeedAfresh ==
    \E n \in 1..Len(unread) :
        /\ ~taking
        /\ buf' = SubSeq(unread, 1, n)
        /\ unread' = Drop(unread, n)
        /\ taking' = TRUE
        /\ UNCHANGED <<wire, dispatched>>

Feed ==
    \E n \in 1..Len(unread) :
        /\ ~taking
        /\ buf' = buf \o SubSeq(unread, 1, n)
        /\ unread' = Drop(unread, n)
        /\ taking' = TRUE
        /\ UNCHANGED <<wire, dispatched>>

TakeMessage ==
    /\ taking
    /\ \E b \in {Strip(buf)} : \E ends \in {HeaderEnds(b)} :
          IF ends = {} THEN NeedMore(b) ELSE \E end \in {Min(ends)} : Cut(b, end)
    /\ UNCHANGED <<wire, unread>>

Idle == unread = <<>> /\ ~taking /\ UNCHANGED vars

Next == Feed \/ TakeMessage \/ Idle

(* A loop that runs: what the network holds is read, and the buffer taken. *)
Spec == Init /\ [][Next]_vars /\ WF_vars(Feed \/ TakeMessage)

-----------------------------------------------------------------------------
(* What was sent, without the framing. *)
Meant(item) ==
    CASE item \in {"request", "unreadable_length_and_body"} ->
            <<[start |-> "request", body |-> <<>>]>>
      [] item = "response" -> <<[start |-> "response", body |-> <<>>]>>
      [] item = "request_and_body" -> <<[start |-> "request", body |-> Body]>>
      [] OTHER -> <<>>
Sent(items) == FlattenSeq([i \in DOMAIN items |-> Meant(items[i])])

(* How many items there are before the first that is badly framed. *)
Sound(w) == Min({n \in 0..Len(w) : n = Len(w) \/ w[n + 1] \in BadlyFramed})

(* Every variable has its type, and the buffer is always the part of the   *)
(* stream just before what is still unread.                                *)
TypeOK ==
    /\ wire \in Wires
    /\ taking \in BOOLEAN
    /\ IsSuffix(buf \o unread, Stream(wire))
    /\ dispatched \in Seq(Messages)

(* A message is dispatched as soon as its last token has been read: none   *)
(* waits in the buffer for the next one, and a message that does not parse *)
(* keeps no other, as long as none before it was badly framed.             *)
NoneHeldBack ==
    ~taking =>
        LET read == Len(Stream(wire)) - Len(unread)
        IN  \A k \in 1..Sound(wire) :
                Len(Stream(SubSeq(wire, 1, k))) <= read =>
                    IsPrefix(Sent(SubSeq(wire, 1, k)), dispatched)

(* However TCP cuts the stream, take_message neither invents, drops,       *)
(* repeats nor reorders a message, and gives each its own body: what has   *)
(* been dispatched is the first part of what was sent, and all of it once  *)
(* everything has been read.  It holds up to the first item that is badly  *)
(* framed, of which only what follows it can suffer.                       *)
NothingElse ==
    LET sent == Sent(SubSeq(wire, 1, Sound(wire)))
    IN  /\ \/ IsPrefix(dispatched, sent)
           \/ Sound(wire) # Len(wire) /\ IsPrefix(sent, dispatched)
        /\ (unread = <<>> /\ ~taking) => IsPrefix(sent, dispatched)

(* What TCP does to the stream does not show: before the first item that   *)
(* is badly framed, every message whose last token has been read has been  *)
(* dispatched, and nothing else ever is.                                   *)
DispatchedAsSent == NoneHeldBack /\ NothingElse

(* What arrives when a body left in the buffer is taken for the beginning  *)
(* of the item behind it.                                                  *)
Surviving(w) ==
    [i \in DOMAIN w |-> IF i > 1 /\ w[i - 1] \in LeavesBody THEN "stray" ELSE w[i]]
NoneNegative(w) == \A i \in DOMAIN w : w[i] # "negative_length"

(* A message that leaves its body behind spoils the item next to it and no *)
(* other: from the one after that, take_message is in step with the sink.  *)
(* (A body of two tokens is an empty line, and spoils nothing.)            *)
InStepAfterNext ==
    (BodyLength > 2 /\ NoneNegative(wire) /\ unread = <<>> /\ ~taking) =>
        dispatched = Sent(Surviving(wire))

(* Unless a length is negative the loop never spins on the same bytes: in  *)
(* the end all that was sent has been read, and each message dispatched    *)
(* that no body was left in front of.                                      *)
AllDispatched ==
    NoneNegative(wire) =>
        <>(/\ unread = <<>> /\ ~taking
           /\ BodyLength > 2 => dispatched = Sent(Surviving(wire)))

(* rtsp/session.py:231-232, "take_message() already consumed the bad       *)
(* bytes, so log and move on to the next message": the inner loop always   *)
(* comes to its end.  A negative length keeps it from it.                  *)
LoopGoesOn == taking ~> ~taking
=============================================================================
