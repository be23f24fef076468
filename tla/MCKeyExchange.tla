--------------------------- MODULE MCKeyExchange ----------------------------
(* A laptop of the owner, a laptop and a tablet of the peer: every run     *)
(* takes some of them, one tab each.                                       *)
EXTENDS KeyExchange, TLC
CONSTANTS laptop, peer, tablet, t1, t2, t3

ByIds == <<"owner", "peer">>

OfPair == t1 :> laptop @@ t2 :> peer
OfTwoPeers == t1 :> laptop @@ t2 :> peer @@ t3 :> tablet
Everybody == laptop :> "owner" @@ peer :> "peer" @@ tablet :> "peer"
Who(S) == [d \in S |-> Everybody[d]]
WhoPair == Who({laptop, peer})
WhoTwoPeers == Who({laptop, peer, tablet})
=============================================================================
