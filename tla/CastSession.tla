---------------------------- MODULE CastSession ----------------------------
(***************************************************************************)
(* What one cast promises its user, with no protocol in it: a control      *)
(* channel to the sink comes up at most once, the picture streams only     *)
(* while that channel is listened to or the caller is already leaving, and *)
(* a caller who leaves, leaves with the stream stopped.  WFDSession, the   *)
(* RTSP session of vilya/rtsp/session.py driven by cmd_connect of          *)
(* vilya/__main__.py, is checked to implement it.                          *)
(***************************************************************************)

VARIABLES
    channel,    \* "none" before the sink dials in, then "up", then "down"
    streaming,  \* TRUE while the session claims to be streaming
    caller      \* "serving", "watching", "leaving" or "left"

vars == <<channel, streaming, caller>>

TypeOK ==
    /\ channel \in {"none", "up", "down"}
    /\ streaming \in BOOLEAN
    /\ caller \in {"serving", "watching", "leaving", "left"}

Init ==
    /\ channel = "none"
    /\ streaming = FALSE
    /\ caller = "serving"

(* The sink dials in. *)
Open ==
    /\ channel = "none" /\ caller = "serving"
    /\ channel' = "up"
    /\ UNCHANGED <<streaming, caller>>

(* The handshake is over: the caller watches the session. *)
Watch ==
    /\ channel = "up" /\ caller = "serving"
    /\ caller' = "watching"
    /\ UNCHANGED <<channel, streaming>>

(* The sink plays.  It may cross a caller who is leaving, never one who    *)
(* still serves or has left.                                               *)
Stream ==
    /\ channel = "up" /\ caller \in {"watching", "leaving"}
    /\ streaming' = TRUE
    /\ UNCHANGED <<channel, caller>>

(* The stream stops with the channel still up. *)
Stop ==
    /\ streaming
    /\ streaming' = FALSE
    /\ UNCHANGED <<channel, caller>>

(* The channel goes down, and the stream with it. *)
Drop ==
    /\ channel = "up"
    /\ channel' = "down"
    /\ streaming' = FALSE
    /\ UNCHANGED caller

(* The caller gives up, is interrupted, or has seen the session end; a     *)
(* caller killed with every task takes the reader of the channel along.    *)
Leave ==
    /\ caller \in {"serving", "watching"}
    /\ caller' = "leaving"
    /\ channel' \in {channel, IF channel = "up" THEN "down" ELSE channel}
    /\ UNCHANGED streaming

(* The teardown is complete. *)
Quit ==
    /\ caller = "leaving"
    /\ ~streaming
    /\ caller' = "left"
    /\ UNCHANGED <<channel, streaming>>

Next == Open \/ Watch \/ Stream \/ Stop \/ Drop \/ Leave \/ Quit

(* A caller whose channel is down does leave, and whoever leaves gets out. *)
Spec ==
    /\ Init /\ [][Next]_vars
    /\ WF_vars(channel = "down" /\ Leave)
    /\ WF_vars(Quit)
=============================================================================
