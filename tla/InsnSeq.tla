------------------------------ MODULE InsnSeq -------------------------------
(***************************************************************************)
(* What the lists of a function's blocks promise to the rules: each is a     *)
(* sequence, an instruction is in one of them at most, and every step puts   *)
(* one in, takes one out, or copies or empties whole blocks.  MblArray.tla    *)
(* is shown to implement it.                                                 *)
(***************************************************************************)
EXTENDS Naturals, FiniteSets, SequencesExt

CONSTANTS Insns, Objs

VARIABLE lists    \* lists[b]: the instructions of block b

InSome == UNION {ToSet(lists[b]) : b \in Objs}

Start ==
  /\ lists \in [Objs -> Seq(Insns)]
  /\ \A b, c \in Objs : \A j \in DOMAIN lists[b], k \in DOMAIN lists[c] :
       lists[b][j] = lists[c][k] => b = c /\ j = k

Init == Start

Insert(b) ==
  /\ Len(lists'[b]) = Len(lists[b]) + 1
  /\ \E k \in 1..Len(lists'[b]) :
       /\ lists' = [lists EXCEPT ![b] = InsertAt(@, k, lists'[b][k])]
       /\ lists'[b][k] \notin InSome

TakeOut(b) ==
  /\ Len(lists'[b]) + 1 = Len(lists[b])
  /\ \E k \in 1..Len(lists[b]) : lists' = [lists EXCEPT ![b] = RemoveAt(@, k)]

\* Blocks that had none get instructions, as many as other blocks have, that
\* were in no list.
Duplicate ==
  /\ \A b \in Objs :
       lists'[b] # lists[b] =>
         /\ lists[b] = <<>>
         /\ \E c \in Objs : lists[c] = lists'[c] /\ Len(lists[c]) = Len(lists'[b])
         /\ \A n \in 1..Len(lists'[b]) : lists'[b][n] \notin InSome

Release == \A b \in Objs : lists'[b] \in {lists[b], <<>>}

\* The next function.
Load == InSome = {} /\ Start'

Next ==
  \/ \E b \in Objs : Insert(b) \/ TakeOut(b)
  \/ Duplicate
  \/ Release
  \/ Load

Spec == Init /\ [][Next]_lists
=============================================================================
