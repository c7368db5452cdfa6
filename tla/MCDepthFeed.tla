----------------------------- MODULE MCDepthFeed -----------------------------
(***************************************************************************)
(* A small instance of DepthFeed for TLC: books of up to two levels a      *)
(* side, sharing a price, that are not crossed.                            *)
(***************************************************************************)
EXTENDS DepthFeed, TLC

MCBooks ==
  {[bids |-> b, asks |-> a] :
     b \in {1 :> 1, 1 :> 2 @@ 2 :> 1}, a \in {3 :> 1, 3 :> 2 @@ 4 :> 1}}
  \cup {[bids |-> EmptySide, asks |-> 2 :> 1]}
==============================================================================
