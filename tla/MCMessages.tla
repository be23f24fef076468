----------------------------- MODULE MCMessages -----------------------------
(* The requests of one user beside the socket of another.                  *)
EXTENDS Messages, TLC
CONSTANTS a, b, q, s

MCCaller == q :> a @@ s :> b
=============================================================================
