--------------------------- MODULE MCWFDSession ---------------------------
(***************************************************************************)
(* WFDSession on small instances: how often the sink may send each kind of *)
(* request (OTHER is its GET_PARAMETER, SET_PARAMETER or unknown method).  *)
(***************************************************************************)
EXTENDS WFDSession

(* The sink may set up and play twice: two keepalive tasks.                *)
PlaysTwice == [m \in SinkMethods |-> CASE m \in {"SETUP", "PLAY"} -> 2
                                       [] m = "TEARDOWN" -> 1
                                       [] OTHER -> 0]

OneOfEach == [m \in SinkMethods |-> 1]
=============================================================================
