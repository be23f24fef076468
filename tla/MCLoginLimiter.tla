--------------------------- MODULE MCLoginLimiter ---------------------------
(* Two accounts, three logins in progress, a limit of two failures in a    *)
(* window of three ticks.                                                  *)
EXTENDS LoginLimiter
CONSTANTS k1, k2, h1, h2, h3

MCKeys == {k1, k2}
MCHandlers == {h1, h2, h3}
=============================================================================
