------------------------- MODULE MCConcurrentGate --------------------------
(* Two turns of two actions: two racers and a sweeper for the first turn,  *)
(* one racer and a sweeper for the second.                                 *)
EXTENDS ConcurrentGate, TLC

CONSTANTS r1, r2, r3, s1, s2, t1, t2

TwoActions == [pl \in Plans |-> 2]
NoneOffered == [t \in Turns |-> {}]
Assigned == r1 :> t1 @@ r2 :> t1 @@ s1 :> t1 @@ r3 :> t2 @@ s2 :> t2
=============================================================================
