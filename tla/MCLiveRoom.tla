----------------------------- MODULE MCLiveRoom -----------------------------
(* A tab of one user beside the socket of another.                         *)
EXTENDS LiveRoom, TLC
CONSTANTS a, b, p, s

MCCaller == p :> a @@ s :> b
=============================================================================
