------------------------------- MODULE Exrole -------------------------------
(***************************************************************************)
(* Extended roles (exrole/): the table of helper names, built and sorted at  *)
(* compile time; tag_helpers_with_exrole, which traverses a function's       *)
(* instructions before dispatch_glbopt and writes the role of each call of a *)
(* helper in the table into the call; and get_instruction_exrole, by which   *)
(* the rules read it.  A name is a length, a hash and a place in the order   *)
(* of strcmp.                                                                *)
(***************************************************************************)
EXTENDS Traverse

CONSTANTS
  Names,     \* names of helpers
  Listings,  \* sequences of [name, role], as the headers list them
  Namings,   \* functions from names to [length, hash, text]
  Functions, \* sequences of instructions
  Mask       \* EXROLE_MASK, above every role of the decompiler's own

ASSUME MaskAssumption == Mask \in Nat \ {0}
ASSUME FunctionsAssumption == Functions \subseteq Seq(Insns) \ {<<>>}

\* No role listed is exrole_t::none, and different names differ for strcmp.
ASSUME NamesAssumption ==
  /\ Listings \subseteq Seq([name : Names, role : Nat \ {0}])
  /\ Namings \subseteq [Names -> [length : Nat, hash : Nat, text : Nat]]
  /\ \A naming \in Namings : \A x, y \in Names : naming[x].text = naming[y].text => x = y

VARIABLES
  listed,  \* the names and roles as the headers list them
  named,   \* length, hash and order of every helper's name
  table,   \* g_role_search_table and g_lut_exrole
  role,    \* role[place]: mcallinfo_t::role of the calls of the instruction
  own,     \* what the decompiler writes there
  rest     \* the function's instructions not walked yet

tableVars == <<listed, named, table>>
vars == <<walkVars, tableVars, role, own, rest>>

-----------------------------------------------------------------------------
(* The table. *)

\* Of names of one hash the shorter is less, and so is one that strcmp puts
\* first, whichever is shorter.
Less(x, y) ==
  IF x.hash # y.hash THEN x.hash < y.hash
  ELSE x.length < y.length \/ x.text < y.text

\* Of two places the one whose name is less; the second if neither is.
Lesser(list, j, k) == IF Less(list[j], list[k]) THEN j ELSE k

\* The place of the least from i on, as one scan finds it.
LeastFrom(list, i) ==
  LET least[n \in 0..(Len(list) - i)] == IF n = 0 THEN i ELSE Lesser(list, i + n, least[n - 1])
  IN least[Len(list) - i]

\* quicksort_const: the least of the rest changes places with the next.
Exchanged(arr, i) == LET k == LeastFrom(arr, i) IN [arr EXCEPT ![i] = arr[k], ![k] = arr[i]]

\* ... for every place in turn.
SortedTable(list) ==
  LET sorted[n \in 0..Len(list)] == IF n = 0 THEN list ELSE Exchanged(sorted[n - 1], n)
  IN sorted[Len(list)]

\* add_to_roleset, for all roles
Submitted(list, naming) ==
  [n \in DOMAIN list |->
     LET x == naming[list[n].name]
     IN [length |-> x.length, hash |-> x.hash, text |-> x.text, role |-> list[n].role]]

\* std::lower_bound, as the first of the elements left that is not less: of
\* size many from first on, one half is kept until none is left.
Halved(left, x) ==
  LET first == left[1]
      size == left[2]
      half == size \div 2
  IN IF size = 0 THEN left
     ELSE IF Less(table[first + half], x) THEN <<first + half + 1, size - half - 1>>
     ELSE <<first, half>>

LowerBound(x) ==
  LET left[n \in 0..Len(table)] == IF n = 0 THEN <<1, Len(table)>> ELSE Halved(left[n - 1], x)
  IN left[Len(table)][1]

NoRole == 0

FindExrole(x) ==
  LET n == LowerBound(x)
  IN IF n > Len(table) \/ table[n].text # x.text THEN NoRole ELSE table[n].role

-----------------------------------------------------------------------------
(* Tagging and reading. *)

EncodeExrole(r) == r + Mask
DecodeExrole(field) == IF field >= Mask THEN field - Mask ELSE NoRole

Calls(i) == {place \in DOMAIN i : i[place].t \in {"insn", "d"} /\ i[place].op = "call"}

HelperIn(i, place) == i[Append(place, 1)]

IsHelperCall(i, place) == place \in Calls(i) /\ HelperIn(i, place).t = "h"

\* What a call names is a name.
ASSUME HelpersAssumption ==
  \A i \in Insns : \A place \in Calls(i) :
    HelperIn(i, place).t = "h" => HelperIn(i, place).name \in Names

\* What find_and_tag_helper_exrole does to the call an operand holds.
RoleOf(i, place) ==
  IF IsHelperCall(i, place)
  THEN FindExrole(named[HelperIn(i, place).name])
  ELSE NoRole

\* Seeded fault: the role is written without the bit that marks it.
TaggedUnmarked(i, place) ==
  [role EXCEPT ![place] = IF RoleOf(i, place) = NoRole THEN @ ELSE RoleOf(i, place)]

Tagged(i, place) ==
  [role EXCEPT ![place] = IF RoleOf(i, place) = NoRole THEN @
                          ELSE EncodeExrole(RoleOf(i, place))]

\* get_instruction_exrole of a call
GetExrole(i, place) ==
  IF IsHelperCall(i, place) THEN DecodeExrole(role[place]) ELSE NoRole

-----------------------------------------------------------------------------

Init ==
  /\ listed \in Listings /\ named \in Namings
  /\ table = SortedTable(Submitted(listed, named))
  /\ own \in 0..1
  /\ \E code \in Functions : insn = Head(code) /\ rest = Tail(code)
  /\ InitWalk
  /\ role = [place \in Calls(insn) |-> own]

\* A step of the walk, whose callback tags a call held by the operand before
\* the operands of that call are walked.  After the decompiler has analysed
\* calls, as it has here, d of each is the mop_f the callback asserts it to be.
TagStep ==
  /\ Step
  /\ \E seen \in {SubSeq(visited', Len(visited) + 1, Len(visited'))} :
       role' = IF seen # <<>> /\ Head(seen) \in DOMAIN role
               THEN Tagged(insn, Head(seen)) ELSE role
  /\ UNCHANGED <<tableVars, own, rest>>

\* insn->next
NextInsn ==
  /\ stage = "done" /\ rest # <<>>
  /\ insn' = Head(rest) /\ rest' = Tail(rest)
  /\ stack' = Pushed(insn', <<>>) /\ at' = <<>> /\ visited' = <<>> /\ stage' = "walk"
  /\ role' = [place \in Calls(insn') |-> own]
  /\ UNCHANGED <<tableVars, own>>

Next ==
  \/ TagStep
  \/ Return /\ UNCHANGED <<tableVars, role, own, rest>>
  \/ NextInsn
Spec == Init /\ [][Next]_vars

-----------------------------------------------------------------------------

RolesListed(x) == {e.role : e \in {l \in Range(listed) : l.name = x}}

\* No two names in the table are each less than the other, which Less says of
\* names of one hash of which the longer comes first in the order of strcmp.
Ordered ==
  \A x, y \in {named[l.name] : l \in Range(listed)} : ~(Less(x, y) /\ Less(y, x))

\* After a function's instruction has been tagged, the rules read from a call of
\* a helper the role its name is listed with, wherever in the instruction the
\* call is, and from every other call none; a call that is not in the table keeps
\* what the decompiler wrote.  The instruction itself is no operand: a call
\* without a result stays untagged.  A name listed with two roles gets one of
\* them, and which depends on the sort.
RolesRead ==
  stage = "done" /\ FieldsFit /\ Ordered =>
    /\ \A c \in Calls(insn) \ {<<>>} :
         LET roles == IF IsHelperCall(insn, c) THEN RolesListed(HelperIn(insn, c).name) ELSE {}
         IN IF roles = {} THEN GetExrole(insn, c) = NoRole /\ role[c] = own
            ELSE GetExrole(insn, c) \in roles
    /\ <<>> \in Calls(insn) => role[<<>>] = own
=============================================================================
