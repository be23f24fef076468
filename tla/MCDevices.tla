----------------------------- MODULE MCDevices ------------------------------
(* Devices with a limit of two: five ids, so that three requests can take  *)
(* a user over the limit as far as it goes, and be refused after it.       *)
EXTENDS Devices, TLC
CONSTANTS a, d1, d2, d3, d4, d5, h1, h2, h3

MCHandlers == {h1, h2, h3}
MCSymmetry == Permutations(Ids) \cup Permutations(MCHandlers)
=============================================================================
