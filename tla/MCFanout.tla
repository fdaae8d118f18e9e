------------------------------ MODULE MCFanout ------------------------------
(***************************************************************************)
(* Small plans for Fanout.  Parts are numbered in plan order.              *)
(***************************************************************************)
EXTENDS FanoutRefinement

\* Two parts side by side, then one that needs the first.
ForkWaves == 1 :> 1 @@ 2 :> 1 @@ 3 :> 2
ForkDeps  == 1 :> {} @@ 2 :> {} @@ 3 :> {1}

\* Two parts side by side, and a chain behind the first of them.
TailWaves == 1 :> 1 @@ 2 :> 1 @@ 3 :> 2 @@ 4 :> 3
TailDeps  == 1 :> {} @@ 2 :> {} @@ 3 :> {1} @@ 4 :> {3}

\* One part after the other.
PairWaves == 1 :> 1 @@ 2 :> 2
PairDeps  == 1 :> {} @@ 2 :> {1}

\* Part 4 of the last wave needs a part of each of the two waves before it.
JoinWaves == 1 :> 1 @@ 2 :> 1 @@ 3 :> 2 @@ 4 :> 3
JoinDeps  == 1 :> {} @@ 2 :> {} @@ 3 :> {2} @@ 4 :> {1, 3}

=============================================================================
