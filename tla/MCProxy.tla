-------------------------------- MODULE MCProxy --------------------------------
(* Instances of Proxy for TLC: every model on the one server a, which has one  *)
(* slot, and an alias of all of them at the same cost.                         *)
EXTENDS ProxyLines

CONSTANTS a

MCHome == [m \in Models |-> a]
MCCap == a :> 1
MCMembers == SetToSeq(Models)
MCCost == [m \in Models |-> 1]
==============================================================================
