------------------------------ MODULE InsnList ------------------------------
(***************************************************************************)
(* The instruction lists of blocks (mbl_array.cpp): the two operations that  *)
(* the decompiler does not export and the plugin has its own versions of,    *)
(* insert_into_block and remove_from_block, on the nodes and their links.    *)
(* A list is changed by rules, in the hands of a walk that is over it.       *)
(***************************************************************************)
EXTENDS Naturals, FiniteSets, SequencesExt

CONSTANTS
  Insns,    \* minsn_t objects, positive numbers; Null is a null pointer
  Objs,     \* mblock_t objects
  Eas,      \* addresses of instructions
  NoEa      \* BADADDR, -1

Null == 0

ASSUME InsnsAssumption == Insns \subseteq Nat \ {Null} /\ IsFiniteSet(Insns)
ASSUME EasAssumption == Eas \in (SUBSET Nat) \ {{}} /\ NoEa \notin Eas

\* What the operations tell apart: an m_push or m_pop, an m_jtbl with its case
\* targets, anything else, and memory that holds no instruction.
Opcodes == {"push", "jtbl", "other", "free"}

\* The memory: of each block its head, tail and flags (MBL_PUSH, and the 4 that
\* remove_from_block sets), of each instruction its links and what it is.
Blank ==
  [head |-> [b \in Objs |-> Null], tail |-> [b \in Objs |-> Null],
   flags |-> [b \in Objs |-> {}],
   next |-> [i \in Insns |-> Null], prev |-> [i \in Insns |-> Null],
   op |-> [i \in Insns |-> "free"], ea |-> [i \in Insns |-> NoEa],
   cases |-> [i \in Insns |-> <<>>]]

\* An assignment through a pointer that the code has tested for null.
Set(f, x, v) == IF x \in DOMAIN f THEN [f EXCEPT ![x] = v] ELSE f

-----------------------------------------------------------------------------
(* insert_into_block(nm, om): nm goes in behind om, or before the head.      *)

\* An instruction without an address takes that of its neighbour.
Stamped(m, b, nm, om) ==
  IF m.ea[nm] # NoEa THEN m.ea[nm]
  ELSE IF om # Null THEN m.ea[om]
  ELSE IF m.head[b] # Null THEN m.ea[m.head[b]]
  ELSE NoEa

Follows(m, b, om) == IF om # Null THEN m.next[om] ELSE m.head[b]

\* Seeded fault: the next one's link back is left alone.
InsertedNoBack(m, b, nm, om) ==
  [m EXCEPT
    !.flags[b] = IF m.op[nm] = "push" THEN @ \cup {"push"} ELSE @,
    !.ea[nm] = Stamped(m, b, nm, om),
    !.prev[nm] = om,
    !.next = Set([@ EXCEPT ![nm] = Follows(m, b, om)], om, nm),
    !.head[b] = IF om = Null THEN nm ELSE @,
    !.tail[b] = IF @ = om THEN nm ELSE @]

Inserted(m, b, nm, om) ==
  [m EXCEPT
    !.flags[b] = IF m.op[nm] = "push" THEN @ \cup {"push"} ELSE @,
    !.ea[nm] = Stamped(m, b, nm, om),
    !.prev = Set([@ EXCEPT ![nm] = om],
                 IF m.tail[b] = om THEN Null ELSE Follows(m, b, om), nm),
    !.next = Set([@ EXCEPT ![nm] = Follows(m, b, om)], om, nm),
    !.head[b] = IF om = Null THEN nm ELSE @,
    !.tail[b] = IF @ = om THEN nm ELSE @]

-----------------------------------------------------------------------------
(* remove_from_block(m): i leaves its block with links to nothing.           *)

\* Seeded faults: the link to the next one is cleared before its use; the tail
\* is not moved.
RemovedClearedFirst(m, b, i) ==
  [m EXCEPT
    !.flags[b] = @ \cup {"changed"},
    !.head[b] = IF @ = i THEN Null ELSE @,
    !.tail[b] = IF @ = i THEN m.prev[i] ELSE @,
    !.next = [Set(@, IF m.head[b] = i THEN Null ELSE m.prev[i], Null) EXCEPT ![i] = Null],
    !.prev = [@ EXCEPT ![i] = Null]]

RemovedTailKept(m, b, i) ==
  [m EXCEPT
    !.flags[b] = @ \cup {"changed"},
    !.head[b] = IF @ = i THEN m.next[i] ELSE @,
    !.next = [Set(@, IF m.head[b] = i THEN Null ELSE m.prev[i], m.next[i]) EXCEPT ![i] = Null],
    !.prev = [Set(@, IF m.tail[b] = i THEN Null ELSE m.next[i], m.prev[i]) EXCEPT ![i] = Null]]

Removed(m, b, i) ==
  [m EXCEPT
    !.flags[b] = @ \cup {"changed"},
    !.head[b] = IF @ = i THEN m.next[i] ELSE @,
    !.tail[b] = IF @ = i THEN m.prev[i] ELSE @,
    !.next = [Set(@, IF m.head[b] = i THEN Null ELSE m.prev[i], m.next[i]) EXCEPT ![i] = Null],
    !.prev = [Set(@, IF m.tail[b] = i THEN Null ELSE m.next[i], m.prev[i]) EXCEPT ![i] = Null]]

\* delete, of an instruction that is in no list.
Deleted(m, i) == [m EXCEPT !.op[i] = "free", !.ea[i] = NoEa, !.cases[i] = <<>>]

-----------------------------------------------------------------------------
(* The list as a walk from the head, and from the tail, meets it; more steps *)
(* than there are instructions are a loop.                                   *)

Along(from, link) ==
  LET walk[p \in (Insns \cup {Null}) \X (0..Cardinality(Insns))] ==
        IF p[1] = Null THEN <<>>
        ELSE IF p[2] = 0 THEN <<p[1]>> ELSE <<p[1]>> \o walk[<<link[p[1]], p[2] - 1>>]
  IN walk[<<from, Cardinality(Insns)>>]

Forwards(m, b) == Along(m.head[b], m.next)
Backwards(m, b) == Along(m.tail[b], m.prev)
Members(m, b) == ToSet(Forwards(m, b))
=============================================================================
