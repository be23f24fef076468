----------------------------- MODULE MCSessions -----------------------------
(* Two users who log in once each, three requests at a time.               *)
EXTENDS Sessions, TLC
CONSTANTS a, b, s1, s2

MCOwner == s1 :> a @@ s2 :> b
=============================================================================
