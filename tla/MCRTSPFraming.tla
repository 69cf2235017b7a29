--------------------------- MODULE MCRTSPFraming ---------------------------
(* Up to three items, in every order. *)
EXTENDS RTSPFraming

UpToThree == UNION {[1..n -> Items] : n \in 1..3}

(* One item of each kind. *)
One == [1..1 -> Items]
=============================================================================
