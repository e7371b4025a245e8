---------------------------- MODULE MCGotoMerge ----------------------------
(***************************************************************************)
(* GotoMerge over every function of N blocks with at most one ordinary       *)
(* instruction before each block's tail.                                     *)
(***************************************************************************)
EXTENDS GotoMerge

Other == [op |-> "other", to |-> 0]
Tails ==
  {<<>>, <<[op |-> "ret", to |-> 0]>>, <<[op |-> "jcnd", to |-> 1]>>}
    \cup {<<[op |-> "goto", to |-> t]>> : t \in 0..N}

MCBodies == Tails \cup {<<Other>> \o t : t \in Tails}
=============================================================================
