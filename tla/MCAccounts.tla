------------------------------ MODULE MCAccounts ------------------------------
(* Changes of accounts beside lookups and logins.                          *)
EXTENDS Accounts, TLC
CONSTANTS e1, e2, p1, q1, q2

MCLooked == {ById(1), WithPassword(e1)}
MCMay == q1 :> Changes @@ q2 :> {"read"}
=============================================================================
