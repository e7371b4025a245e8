# Hexext: specifications of the Microcode Sliding Window plugin

Hexext is a plugin for the Hex-Rays decompiler. It installs itself in the
decompiler's event stream, rewrites microcode with a few dozen combine rules,
emits microcode for instructions the decompiler does not know, reorders ifs in
the finished text and, because it drives versions of the decompiler whose
interface was not published, carries its own implementations of the decompiler's containers and
data-flow questions. The modules here specify that code as it is in
`src/microcode_sliding_window/`. TLC checks them on small instances; TLAPS
proves part of what is checked for every instance.

All source paths below are relative to `src/microcode_sliding_window/`.

## The system

| component | source | state it keeps | operations | what makes it correct |
|---|---|---|---|---|
| register lists, `bitset_t` | `mlist.cpp` | words, `high`, an allocation of its own size | add, sub, cut, intersect, copy, ... and questions answered word by word | live words inside the allocation; `high` minimal after each deletion, since comparisons rely on it; it is a set; what `clear()`, which leaves `high`, makes of the answers |
| memory lists, `ivlset_t` | `mlist.cpp` | a vector of intervals | add, union, copy, swap and questions | sorted and fully coalesced; it is a set of addresses |
| goto merging | `preoptimization-postprocess/prepostprocess.cpp` | the instruction lists of all blocks | one pass per `rerun`, until a pass changes nothing | what a block does is kept; the fixpoint comes |
| plugin life and events | `plugin_main.cpp`, `micro_hooks.cpp`, `combine_rules/combine_core.cpp`, `microgen_additions/microgen_core.cpp`, `ctree/ctree.cpp` | registries of callbacks, maturity flags, the pending request for microcode, the rules' context globals | init, toggle, term, the handler of decompiler events, `gen_microcode_ex`, `dispatch_combinsn`, `dispatch_glbopt` | registries follow the toggle; a request never outlives its decompilation; callbacks run at the fixpoint; `MERR_OK` means nothing changed |
| data-flow walks | `hexutils/hexutils.cpp` | a `visited` pool shared by all, result vectors of fixed size | `gather_defs`, `no_redef_in_path`, `find_definition_size`, `gather_uses`, and the searches in one block | the answer is right for every graph; every walk ends |
| instruction lists, block arrays | `mbl_array.cpp` | doubly linked instructions and blocks | insert, remove, create a block, duplicate, release | links agree both ways; numbering and targets follow |
| filters and assembly rewriters | `internal/micro_filter_api.hpp`, `microgen_additions/` | the filter selected, a recursion guard, the end of the function | match, apply | match and apply agree on an instruction; rewriters end |
| instruction generators | `microgen_additions/*_codegen.cpp` | none | the microcode of bt, sarx, shlx, shrx, tzcnt and blsr | it does what the processor does, flags included, in whatever order it is emitted |
| traversal | `hexutils/traverse_micro.hpp` | an explicit stack with packed fields | visit every operand | what recursion would visit, in its order |
| combine rules | `combine_rules/`, `hexutils/moptrace.hpp` | none of their own; the instructions, blocks and edges they rewrite | one rewriting each | what the function computes is kept, by each rule and by one after the other |
| potential bits | `hexutils/potential_bits.cpp` | none | over-approximation of an operand's bits | no possible bit is missed |
| helper roles | `exrole/` | a table built and sorted at compile time; roles in the calls | lookup by name, tagging, reading back | a call has the role its helper is listed with |
| late if inversion | `ctree/late_if_invert.cpp` | the statements of the text | swaps of returns, inversion by weight | meaning kept; the swaps run out; idempotent |
| register model | `mvm/` | tables | mapping of register parts | |
| printers, patching, compile-time plumbing | `printers.cpp`, `hexmod.cpp`, `cs_*.hpp` | none | | |

The decompiler is single threaded and calls the plugin; nothing in the plugin
runs on its own. What is hard is not parallelism but order: the user may toggle
the plugin between any two decompilations, the decompiler may call its events
any number of times, be cancelled or fail at any of them, and each rule may run
on a function another rule has just changed, on the word of a walk that looked
at it before. Below that, the containers are hard: long sequences of legal calls
on objects whose length, allocation and contents change separately. The hazards
are listed one by one, with their lines, in `PROJECT.json`.

How the components meet: `hexcb` (micro_hooks.cpp) dispatches the decompiler's
events to registries that `toggle_*` fill; the combine rules reached from there
ask the data-flow walks, which build operand lists (`mlist_t` = register list
and memory list, filled by the traversal) and mark blocks in one global pool,
itself a bitset; rules change instruction lists, block edges and what the next
rule sees; filters emit instructions that the rules then work on; helper roles
are tagged before the rules walk; `gen_microcode_ex` asks for a decompilation that
is answered and cancelled from inside the event handler.

## Modules

| module | models | state and actions |
|---|---|---|
| `BitsetSpec` | what a register list promises | a set per object, the value the last call returned, and the sets that were cleared and may say they changed when they did not |
| `Bitset` | `bitset_t` | `high`, `bitmap` (bits set in the memory, whether live or stale), `alloc`; one action per call that changes an object. `Lists` are used as operand lists, which `moptrace_t::set` also clears (moptrace.hpp:96, 111), `Pools` as visited sets (sized, cleared and filled, never compared). The history variable `cleared` has the objects that were cleared, or took words of one that was, and were not trimmed since |
| `BitsetProofs` | | the theorems about `Bitset`, and that it implements `BitsetSpec` |
| `IvlSetSpec` | what a memory list promises | a set of addresses per object, and whether an add grew it |
| `IvlSet` | `ivlset_t` | `bag`, a sequence of intervals; `Added` is the whole of `add`, with its early returns |
| `IvlSetProofs` | | the theorems about `IvlSet`, and that it implements `IvlSetSpec` |
| `GotoMerge` | `prepostprocess_run` | the pass's position (block, instruction being copied) and the blocks' instruction lists; one action per list operation of the pass |
| `GotoMergeProofs` | | the theorems about `GotoMerge` |
| `Plugin` | plugin_main, hexcb, `gen_microcode_ex` | registries, installed hooks, pending request and its output, maturity flags, and where in a decompilation the decompiler is; the decompiler itself is external and fires its events in any order and number its interface allows |
| `PluginProofs` | | the theorems about `Plugin` and about the filter it installs, `MicroFilter` |
| `Flow` | what the walks see of a function (of an instruction what it does to the list, its size and, of an `m_xdu`, the size of what it extends); the walks within one block | constants and operators only |
| `ReachingDefs` | `gather_defs` | the recursion as a stack of open calls, the pool, the vector |
| `PathClear` | `no_redef_in_path` | the same, over successors |
| `DefSize` | `find_definition_size` | the same, with a size in each open call; `Reported` is the size a definition counts with, the source's for an `m_xdu` to eight bytes |
| `UseGather` | `gather_uses` | the same, over successors or predecessors, with a vector of uses |
| `Walks` | the four as rules call them | the walk in progress, and the pool shared by all, which holds whatever the walk before left |
| `WalksProofs` | | the theorems about the four walks |
| `InsnSeq` | what the lists of a function promise | a sequence of instructions per block |
| `InsnList` | `insert_into_block`, `remove_from_block` | a memory of heads, tails, links, addresses and opcodes; each operation a function from memory to memory, since rules, the preoptimizer and the duplication all call them |
| `MblArray` | the rest of mbl_array.cpp, over `InsnList` | links between blocks, `natural`, numbers, the duplicate; one action per call, and the decompiler freeing a function and handing over the next |
| `MblArrayProofs` | | the theorems about `MblArray`, and that it implements `InsnSeq` |
| `Rewriters` | the rewriters of instructions, `is_insn_okay_to_inline`, `is_callea_inlinable` | pure: a world of functions and pointers in, an instruction out |
| `MicroFilter` | `micro_filter_api_t`, `trivial_inliner_x64_t` | the members of the filter, `cdg.insn`, and the open calls of `gen_micro` and `apply`; the decompiler walks through a function, may fail and may throw |
| `Micro` | `mop_t`, `minsn_t`, the matchers and tables the rules share; and what microcode means | operands and instructions as records, `Value` and `Exec` |
| `PotentialBits` | `try_determine_potential_bits`, the extractors of shifts and extensions | pure |
| `ArithRules` | the rules that rewrite one instruction | one operator per rule, from an instruction and the context globals to an instruction |
| `Dispatch` | `dispatch_combinsn`'s search through rules and operands; what each rule presumes | pure |
| `Combine` | one instruction dispatched until no rule fires | the instruction, `g_parent_mop_size`, the calls so far |
| `FlowRules` | the rules over several instructions and blocks, the tracer, operand lists and temporaries | one operator per rule, from a function and a place to a function; it asks `Flow` |
| `Codegen` | what the four generators emit; what the processor does | pure |
| `Glbopt` | `hxe_combine` and the walk of `dispatch_glbopt` over a function, with all rules | the function, the place in it, `did_modify`, the globals; one action per event, instruction, block and round |
| `LateIf` | `perform_late_if_inversion` | the body, and the list of ifs to invert; one action per swap and per inversion |
| `Traverse` | `traverse_micro` | the stack, the operand being visited; one action per turn of its loop |
| `Exrole` | the table, `tag_helpers_with_exrole`, `get_instruction_exrole` | the table as sorted, the roles written; its steps are those of `Traverse` with the callback |
| `ExroleProofs` | | the theorems about the traversal, the table and tagging |
| `IndFacts` | | induction over numbers and what is defined by recursion, sequences put together and taken apart: lemmas the proofs share |
| `MC...` | | constraints, functions, instructions and programs for TLC |

Definitions keep the names of the functions they model where TLA+ allows;
`PROJECT.json` maps each one to its lines. Definitions commented "Seeded fault"
or "Mutant" are used by no specification: each is a way a definition after it
could have been written wrong, and the property that notices is recorded beside
it in `PROJECT.json`.

What is abstracted away. A bitmap is the set of its set bits, so a loop over
words is a set operation, with the word size kept where lengths are computed. An
operand is one location in `Flow`: an instruction uses it, defines it, spoils it
or has nothing to do with it, because each walk asks about one operand list and
never looks at two; `FlowRules` makes that location of the list at hand.
Instructions in `GotoMerge` carry only what the pass reads. Recursion is a stack
of open calls so that each call is a step and a bound on graphs does not bound
the recursion. In the rules, registers, stack slots and globals are all
registers, memory is a few cells, and types, addresses and the ownership of
operands are left out. A name in `Exrole` is a length, a hash and a place in the
order of `strcmp`.

What microcode means is not in the repository. `Micro` takes it from the names of
the opcodes, the comments of the rules and the identities they rewrite by; each
of these definitions is marked external, as are the processor in `Codegen` and
the statements of the text in `LateIf`, whose visitor, `lnot` and copying are the
decompiler's.

## Runs

| run | bounds | shows |
|---|---|---|
| `Bitset` | 2-bit words; two lists of two words; one list or pool of three | `InBounds`: live words and every bit ever written are inside the allocation; `Trimmed`: after any call the last live word of a list holds a bit, unless the list is in `cleared`; `QueriesAgree`: `has_common` answers for the sets, `is_subset_of` and `compare_` never say yes wrongly, and no wrongly only of a list in `cleared`; `Refines`: the objects are sets, cleared and filled again, that say whether a call changed them, those in `cleared` less exactly |
| `IvlSet` | two sets, all intervals over 7 addresses | `Canonical`: sorted, disjoint, never touching, whatever was added; `QueriesAgree`; `Refines` |
| `GotoMerge` | every function of 3 blocks with the bodies of `MCBodies` | `MeaningKept`: following gotos from a block does what it did; `Merged`: at the end no mergeable goto is left; `Finishes`: the pass comes back exactly when the gotos form no cycle it works on |
| `Plugin` | two functions, two instructions, two changes | `RegistryFollowsToggle`; `CaughtAtFixpoint`; `RequestEnds`: a request made by `gen_microcode_ex` is gone when it returns |
| `Walks` | every graph of 3 blocks with at most two successors each, definitions of two sizes and zero extensions of four bytes to eight and of one to four, uses of one size, vector capacities 2 and 4, a pool with every block marked | `DefsGathered`: gathered definitions reach the block, each once, and are all of them when the answer is true; `AnswerRight`: `no_redef_in_path` answers exactly; `SizeAgrees`: a size is only reported if the definitions looked at agree, an extension to eight bytes counted with its source, and there are some on every way; `GathersPastRedefinitions`: exactly what `gather_uses` collects, each use once but those of the first block; `Ends` |
| `WalksUses` | two blocks, every graph | violated: see findings |
| `Blocks` | functions of 2 blocks, one more put in, 3 instructions and their copies, with and without a jump table | `WellLinked`: both directions of every list are one list, nothing is lost or in two lists, blocks keep to their numbers; `Refines`: they are sequences; `TablesKept`: cases keep to their blocks; `DuplicateKept`: a duplicate has the original's code and outlives it |
| `MicroFilter` | 84 programs of four functions, two of them decompiled, at two addresses of an `mbl_array_t` | `DoesTheSame`: what is generated for a function comes to the operations the function comes to; `DispatchedAtEnd`: the end is noticed once; `Ends`: generating a function ends |
| `Combine` | the instructions of `MCCases`, among them one at least for each rule and its near misses, every value of every register | `MeaningKept`: an instruction computes and writes what the one handed over did, after any number of rewrites; `MaskCovers`: potential bits cover every value; `SizesAgree`: an operand has the size of what is in it; `Settles`: the rules come to rest |
| `Glbopt` | some 1200 functions of four blocks, 40 234 states | `ProgramKept`: no rule changes what the function leaves in registers and memory, nor makes it read where it did not; `EmittedDoes`: code emitted for an instruction of the processor does, before and after the rules, what the instruction does; `EdgesAgree`: successor and predecessor sets and block types are those of the jumps; `OkMeansUnchanged`: a round that changed something does not answer `MERR_OK`; `Finishes`: the rounds end |
| `LateIf` | bodies of up to three statements over ifs nested two deep, with labels, gotos and returns | `MeaningKept`: the body evaluates, calls and returns what it did; `Settled`: applied to its own result the rule does nothing; `SwapsRunOut`: each swap leaves fewer ifs that do not return, which is what ends `do_ret_swap` |
| `Exrole` | instructions nested five deep with calls, on a stack of four and fields of two bits; tables with names equal in hash, length or order | `AsRecursion`: the operands are visited as recursion would, each once, each list left to right; `GivesUpOnDepth`: it is depth and never breadth that overflows the stack; `RolesRead`: a call has the role its helper is listed with and every other has none |

Every passing property has a mutant in `PROJECT.json`: a definition changed the
way it might have been written wrong, under which the same run fails.

Why the bounds are enough. Words: a 2-bit word has a first and a last bit, and
three words have a first, a full and a last one, which are the cases the loops
distinguish; the allocation and the live length differ by up to two words. `MCBitset`
constrains what is in use together, since calls take at most two objects, the
interplay of two depends on which of them has more words and not on how many, and no
call takes a list and a pool; lists are interchangeable (symmetry).
Intervals: an added interval can lie before, touch, overlap, lie inside or
bridge two others, and needs at most three intervals to the right of the place
it goes in; seven addresses hold four intervals that do not touch, less one
for an end that may not wrap. Graphs: three blocks have self loops, a loop of
two and three, a join, a dead end and an unreachable block. A full pool is
the worst that a walk can find: marks are only ever taken for blocks already
seen. Lists: three instructions have a first, a middle and a last one, and a
block put before a case target and one put behind it need two blocks and a third.
Programs: a call of a thunk, of a constant or
changing pointer, of a nullsub, of an operation before a return, of something too
long to be replaced but not to be inlined, and of something that may be neither,
each straight or one call further down. `Rounds` bounds how often an instruction is rewritten,
how deep decoding nests and how deep calls go; ten are two for each of the four functions
and two more, which `RoundsAssumption` asks for and no program can use up, and all calls of
these programs end within them (`Shallow`).
`MaxQty` and `MaxInsns` are guards of `MblArray` and say so.
`MaxLen` in `GotoMerge` cuts a pass that appends to the list it walks; it is the
only bound in a guard there and is longer than any list a pass that ends
produces. `MaxLeft` in `Plugin` bounds how often rules may still change the
function, `NInsns` its instructions.

Instructions and functions: a byte has two bits (`Byte`) and a word two bytes
(`Wide`), so that all values of two words are tried and one byte is neither all of
a word nor one bit of it; vectors have twice that. Numbers of the code that follow
from 8-bit bytes and 64-bit words follow from these instead. `DivLimit` stands
for the 4096 numerators tried for a magic number, `Smears` for the five shifts of
a rounding to 32 bits (two, for four bits), `FlagSlots` for the 15 sets merged at
most. Four blocks and the decompiler's empty one (`NBlocks`) hold a branch, a join
and a loop with a block before and one behind. `MaxCalls` and `MaxRounds` are more
than any case needs and `Settles` and `Finishes` say so; `MaxEvents` allows one
instruction to be combined before the first walk, which is how a rule meets
globals left by another block; `Fuel` is longer than any run that ends, and a run
that does not is compared with none. `TempEnd` lies past the temporary registers
as `rlist_tempregs.high`, which is rounded up to a word, does. In `LateIf` `Fuel`
bounds executions of bodies that a `goto` makes loop. In `Exrole` a stack of four
and fields of two bits (`StackSize`, `Field`) are reached by operands five deep
and calls of four arguments; `Mask` is above every role of the decompiler's own.

Deadlock is not checked where the system stops: a pass or a walk that has come
back, a function that is done, and the plugin after `term`.

Left out of the programs of `MicroFilter` are those in which thunks, constant
pointers and functions that begin with a call and end in a return lead in a
circle (`NoCircle`): on these `preprocess_insn` decodes for ever.

Fairness. The passes and walks are sequential code that runs on once called:
`WF` of the whole next-state relation. In `Plugin` fairness is on the steps of a
decompilation that has begun, never on the user's: nothing forces a toggle, a
request or a decompilation; in `MicroFilter` it is on all but starting a function and
exceptions. `Combine`, `Glbopt`, `LateIf` and `Exrole` need none: that they end is
stated as a bound never reached, or as what each step uses up.

## What the rules presume

A combine rule is right for the code it was written for, and looks at less than
that. Where a rule fires outside of it, the model rewrites as the code does, and
takes note (`presumed`); what the properties say of the rules holds of functions
in which that has not happened. The conditions are in `Presumes` (`Dispatch`),
`FlowPresumes` (`Glbopt`) and `Presumable` (`Codegen`), each as weak as TLC let
it be, and each a case in which the code changes the meaning of a function, or
dies.

| rule or generator | presumes | otherwise |
|---|---|---|
| `combine_shift_and` | words of at most 64 bits; nobody reads a number's original value | the mask of a 16-byte operand is shifted by 64; `shift_and` updates the value only (combine_shift_and.cpp:71), and `is_equal_to` reads the original |
| `cndop_and_xor_1`, `bnot_and_one` | a number's two values agree | they fire on a mask that is no longer one |
| raising a bit table | a count below the width; an instruction with neighbours | counts beyond it, and a null `current_topinsn` in a block of one instruction (micro_hooks.cpp:222); a table without a one leaves an empty chain |
| rules that ask for single bits | a population count of at most one bit | potential_bits.cpp:104 leaves counts out |
| `popcnt_bool_fold` | result and operand of one size | it gives the destination the operand's size |
| `combine_or_shift` | shifts that add up to less than the width | a shift by more than the width |
| `jzf_and_bnot` | a mask of one bit | "not all bits" is taken for "none" |
| negation and absolute value of floats | no second xor around; an `and` | the outer xor is dropped; any instruction with such a mask is taken |
| constant over a subtraction | equality | an order does not survive the wrap |
| division by magic number | a true magic number; a current `g_parent_mop_size` | any multiplier passes; the size is left from an operand visited before |
| `merge_multi_setz` | chains that end in the same number twice; one-byte numbers; nested instruction | the last run or number is lost (cs_core.cpp:59); the destination, too |
| `sets_sub_to_cmp` | operands below the sign bit | a signed test becomes an unsigned comparison |
| less-than-zero to high bit | sizes that agree | an assertion |
| `stx_stx` | one size; no load beside | loads and stores of other places are merged |
| `sift_down_flagcomps` | the flag dead behind the jump; a right operand not overwritten; a fresh temporary; no store between a load and the jump | cleanup_late_flag_ops.cpp:81 to 185: both operands go into the left one, a temporary may be taken, uses in the successors' first instructions are missed |
| `interblock_jcc_deps` | a set on every way, operands nobody writes on the way, no loop through the jump | the flag is computed from other values; one that reads itself is copied for ever |
| `merge_short_circuit_or` | a target that is neither of the next two blocks | an edge is cut that another jump still takes |
| `interblock_flagop_merger` | sets of single bits, independent of each other; a fresh temporary | later sets read the flags of before |
| rounding up to a power of two | only the joins write the register, in its whole width, up to the sum, which reads it | a join into the shifted register, writes between, or a sum of something else; a sum of two registers reads through a null pointer (pow2_rounding_recognizers.cpp:128) |
| sarx, shlx, shrx, bt | a count less than the width | the processor reduces it |
| blsr | two registers | the carry is computed from the result (bmi1_codegen.cpp:226), where the comment asks for the source |

Three helpers are behind several of these. `has_any` steps the bit before it tests
it (mlist.cpp:209), so one-byte operands are missed or confused with the byte
behind; `mlist_has_any_cc` does not see `cf` alone. `allocate_tempreg_unused_in_block_range`
is built on it and returns the first place of which no byte is free, usually past
the temporaries; of one byte, the first with nothing free behind it.
`generate_use_for_insn` counts the destination as a use, so that searches for uses
stop at definitions, and the tracer of `moptrace.hpp` never sees a redefinition.
`mnumber_t`'s order answers "less" both ways (micro_on_70.hpp:345).

Likewise `Traverse` presumes operand lists as long as the packed field can say
(`FieldsFit`: a call of 256 arguments has the second visited alone), `RolesRead` a
table in which no two names are each less than the other (`Ordered`; a name listed
twice gets one of its roles), and calls that are not themselves instructions
without a result, which stay untagged. `LateIf` takes branches to be non-empty,
`then` to be a block, and returns to carry no label.

## Findings

* `WalksUses`: `gather_single_block_uses` returns whether a redefinition ended the
  block, where its comment says the opposite, and `gather_uses_in_path` goes on to
  the successors only then. Besides, the walk in a successor begins behind its
  first instruction. So nothing gathered does not mean that nothing uses the value,
  which is what the flag rules take it to mean.

Met while modelling, and written down where it is presumed away or in the hazards,
without a run: the conditions of the table above; `init()` says "Unloading." when
the decompiler's version is not the one it was built for, after it has installed its
hooks, and leaves them (plugin_main.cpp:118); `find_definition_size` searches
predecessors from before their last instruction, so a definition there is passed
over.

Met in `Bitset`: the member `high` is declared as "highest bit+1 (multiply of
bitset_width)" (micro_on_70.hpp:193), which `clear()` does not keep: it zeroes the
words and leaves `high` (micro_on_70.hpp:267). Until a deletion answers that it
changed the list, a cleared one is longer than its bits: `is_subset_of` and
`compare_` may wrongly say no of it, `intersect` may say that it changed when only
its length did, and so may `sub__`, and `high` does not tell whether it is empty.
Answers of yes, `has_common`, `has` and `empty` stay right. The only lists built code
clears are those of a `moptrace_t` that is set again
(pow2_rounding_recognizers.cpp:62, 75, 122), which is asked `empty` and `has_common` and whose
answers to `sub` are ignored, so no wrong result comes of it. The properties say what holds
of such lists and what only of others.

Met in `MicroFilter`, where no line of the code says otherwise, so its properties
except them by name: an instruction that `operation_then_ret_resolver_x86_64`
puts in place of a call takes the size of the original (trivial_inliner.cpp:168),
and a callee that holds such a call is inlined out of step (`OutOfStep`); the same
function compares that size with where the return is (trivial_inliner.cpp:162), so what
stands between a first call and the return is dropped where an operation longer than the
call has come in its place (`Covers`); an exception through
`gen_micro` leaves the guard set, after which the end of functions is no longer
noticed (`thrown`); the remembered end is the last function's when an
`mbl_array_t` gets the address of the one before (`expectedEnd`).

## Proofs

TLAPS proves, for every value of the constants the named assumptions allow:

| module | theorems | of |
|---|---|---|
| `BitsetProofs` | `TypeCorrect`, `NeverOutOfBounds`, `AlwaysTrimmed`, `AnswersAreSetAnswers`, `Implements` | `TypeOK`, `InBounds`, `Trimmed`, `QueriesAgree`, `Refines` |
| `IvlSetProofs` | `TypeCorrect`, `StaysCanonical`, `AnswersForSets`, `Implements` | `TypeOK`, `Canonical`, `QueriesAgree`, `Refines` |
| `GotoMergeProofs` | `TypeCorrect`, `LeavesNone`, `KeepsMeaning`, `NoReturn` | `TypeOK`, `Merged`, `MeaningKept`, `NoWayBack` |
| `PluginProofs` | `TypeCorrect`, `TogglesCleanly`, `CatchesAtFixpoint`, `RequestsEnd`; `FilterNoticesEnd`, `GuardOverOneCall`, `FilterDoesTheSame` | `TypeOK`, `RegistryFollowsToggle`, `CaughtAtFixpoint`, `RequestEnds`; `DispatchedAtEnd`, `GuardHeld`, `DoesTheSame` |
| `WalksProofs` | `TypeCorrect`, `AnswersRight`, `GathersDefs`, `SizesAgree`, `GathersUses`, `GoesOnFromClear` | `TypeOK`, `AnswerRight`, `DefsGathered`, `SizeAgrees`, `GathersPastRedefinitions`, `VisitedClear` |
| `MblArrayProofs` | `TypeCorrect`, `Linked`, `Implements`, `CasesStay`, `CopiesStay` | `TypeOK`, `WellLinked`, `Refines`, `TablesKept`, `DuplicateKept` |
| `ExroleProofs` | `VisitsAsRecursion`, `HeightIsDepth`, `ReadsRoles` | `AsRecursion`, `GivesUpOnDepth`, `RolesRead` |

`NoWayBack` is the safety half of `Finishes`: a function with a goto loop that the
pass works on is at no time done.

Assumed are the `ASSUME`s of the modules and nothing else; every run evaluates
those of its module. They say what the types of the program say: a word has a bit
(`WAssumption`), an address is below `M` (`OffsAssumption`), a function has a block
(`NAssumption`) and a walk starts in one of two (`BlocksAssumption`, which also has
them finite), code is made of instructions (`BodiesAssumption`, `CodesAssumption`),
edges join blocks (`GraphsAssumption`), what is in the pool are blocks
(`PoolsAssumption`), sizes of operands are positive (`SizesAssumption`), a stack and a
field hold at least two (`TraverseAssumption`), an instruction is a tree: it has just
the operands its lists have (`InsnsAssumption` of `Traverse`), a function has an
instruction (`FunctionsAssumption`), what a call of a helper names is a name
(`HelpersAssumption`), no role in the headers is `none` and strings that are equal for
`strcmp` are the same name (`NamesAssumption`), and the mark of a role is not zero
(`MaskAssumption`). Of `MblArray`: objects are finitely many and none is
null (`InsnsAssumption` of `InsnList`, `ObjsAssumption`), there is an address and
`BADADDR` is none (`EasAssumption`), the blocks of a function are different and at least
one (`FirstAssumption`), its table leads to blocks it has (`TablesAssumption`), a rule
makes pushes and others, never a table (`NewsAssumption`: what rules build is none), and
the bounds leave room for a duplicate (`BoundsAssumption`: to allocate does not fail).
Of `MicroFilter`: functions are finitely many and `None` is none of them, no pointer
and no filter (`FnsAssumption`, `FiltersAssumption`), `Rounds` allows two rewritings for
each function and two more (`RoundsAssumption`), and what is decompiled are programs
(`WorldsAssumption`): a body is straight code whose only return, if it has one, is its
last instruction, every instruction has a size, and a nullsub is a return alone.

### Arguments

Register lists. `TypeOK /\ Trimmed /\ InBounds` is inductive when taken together,
and none of the last two is alone: that a write is inside the allocation needs
`high` to be a multiple of the word size and not above `alloc`, and that it stays
one needs the types. The argument is by the call that was made. A call either
grows the object (`resize`, proved once as lemmas about `ResizedHigh`,
`ResizedAlloc` and `ResizedBits`), or deletes and trims (`Trim` of a finite set is a
multiple of the word size with a bit in its last word), which takes the list out of
`cleared`, or takes over another object's state, and with it whether that is in
`cleared`, or clears and puts the list in it. The answers need a lemma of their own:
a list that is longer than another and not in `cleared` has a bit the other has no
room for, so comparing lengths first loses nothing, whatever was done to the other.
With the invariant each call maps to a call of `BitsetSpec`, whose `loose` is
`cleared`: `sub__` and `intersect` on a list in it are deletions that may answer TRUE
of nothing.

Memory lists. All rests on what one `add` does to a canonical vector (`AddedIs`):
it is ignored or already covered, or it lies apart from all intervals, or it swallows
a run of neighbours; the spliced vector is canonical and stands for the union. The
pointer walk of `has_common_` is followed by induction on how far the two pointers
are from their ends (`WalkIs`). That comparing two vectors element by element compares
the sets needs that a set has one canonical vector (`SameVector`). The refinement
follows: the set of an object grows by the addresses added, and the call says so.

Goto merging. In a function without a cycle of gotos blocks have ranks that go down
along every goto; with ranks the equation between what blocks do has one solution
(`OneMeaning`), and a merge, finished or half done, keeps the ranks and the
equation, whatever the pass has rewritten before. For `Merged` the invariant
says which blocks the pass has gone by and that no copy in progress puts a mergeable goto
behind it. A loop of gotos is a set of blocks each of which leads into the set; each
step of a merge leaves such a set, so the pass does not come back.

Plugin. `IInv` says what each registry holds in each state of the plugin
(`std::list::remove` and `push_back` at the length of the arrays, by induction over the
list), that the callbacks a handler's loop has asked since the last change had nothing to
do, and that a request lives only inside the decompilation it was made for.

The filter. Rewriting an instruction comes to an end in every program without a circle:
a function belongs to the level at which all it leads on to has been seen to end, and
two rounds for each level are enough (`Preprocesses`; `RoundsAssumption` is this bound).
With that, `FilterInv` says what the calls open may look like. Below the innermost all
wait, either in the inliner or in `apply` under the guard, at most one in the latter, and
the guard is up exactly if there is one (`Stack`, `GuardHeld`): this is inductive by
itself, whatever is inlined, as long as no exception has passed. In a function nothing is
inlined into the calls open are one of six lists (`Smooth`), each with what the filter
remembers at it: that the instruction has the settled form of the one it began as, where
it ends, that the end of the function is the remembered one and has not come. The end of
the last instruction is that of the function and of no other (`EndsLast`).

That what is generated does the same has two halves. The first is about rewriting
alone: the settled form of an instruction does what the instruction does
(`SettledDoes`), again by levels of functions, since a thunk, a pointer or an operation
before a return hands the question on to a function further down; and one who walks
through a callee whose instructions keep their sizes meets their starts, one after the
other, up to the return (`LooksAre`), so that an inlined callee comes to all of its body
but that (`InlinedWhole`). The second is the invariant `TellsInv`: at each moment all
instructions before one have been generated, in what they come to, and that one, or an
instruction of what it calls, is being generated (`Generating`, `Inside`, `AtOne`). It
needs no `Stack`: which calls are open follows from which instruction it is. `Doing` says
what an instruction does as far as calls go no deeper than `Rounds`, and the theorem,
like the property, is about programs in which they do not (`Shallow`): what calls that
never end come to is no sequence of operations. `Covers` was found by this proof:
where a call of five bytes, an operation of three and a return make up a function, and
the call is replaced by an operation of eight, that operation is taken for all of it.

Walks. What each walk's answer is about is a least closed set of blocks. `Inv` has two
halves for each walk: it stays inside that set, and every neighbour of a block it is
done with is marked or in an open call, so that with no call open it has covered the
set. This holds for any marks a walk before has left, since each walk unmarks
first. The sizes need that an answer given on the way up is that of all below, and that
what `Reported` tells is what the definition leaves in the operand (`ReportedLeft`);
the uses that a block is entered once, but for the first.

Lists of instructions and blocks. The invariant (`Inv` of `MblArrayProofs`) has three
parts. `GoodMemory`: head, tail and links of all blocks are those of some sequences
(`Holds`), which have nothing in common, belong to blocks of the function or its
duplicate and hold all that lives but what a rule has in its hands. `GoodBlocks`: the two
orders are injective, apart, and agree with links and numbers. `GoodTables`: only tables
have targets, and none is past the last block; without it a renumbering would say nothing
of what a table leads to. Neither the links nor the lists alone are inductive:
`remove_from_block` tests head and tail, and which link it then writes is right only as
the element has its neighbours in one sequence and in no other. Everything
about one call is proved of one memory and its sequences (`InsertedIs`, `RemovedIs`), and
the rest from that: a block copied is inserts at the tail (`CopiedBlockIs`), a duplicate is
blocks copied (`DuplicatedIs`), a release is removals from the head (`EmptiedIs`), all
by induction over the function that says how far the loop has come (`Folded` of
`IndFacts`). `WalksAre` turns sequences back into what a walk from either end meets. A
lemma for each action then shows `Kept`: the invariant again, a step of `InsnSeq`, and
what `TablesKept` and `DuplicateKept` say of that step.

Traversal. An element of the stack has given out some operands of its list and is due
others. Each element lies within what the one below it has given out (`Nested`), so the
stack is no higher than its lists are deep; every operand has been seen, is next, or is
due somewhere (`Covered`); and the last operand seen has been given out by all that is
on the stack (`Reached`), so that what is taken next comes after it (`GivenBefore`).
The fields matter twice: in `Holds`, where a wrapped length still stays within
the list, which is why the height is right for every instruction, and in
`Covered`, which needs the length as it is.

Roles. By `Ordered` no two names listed are each less than the other, and then `Less`,
which is no order of names in general, is the one of hash and text (`OrderedTame`); all
that follows is about that order. The scan keeps the least so far (`LeastIs`), which
needs it transitive; an exchange leaves the same entries and one more in its place
(`ExchangedIs`); the search keeps the place where a name belongs between what it has
thrown away on either side, as long as what is less comes first (`Narrowed`, `Cut`), and
so ends at the first entry that is not less, which has the name's text if any has
(`FindIs`). Tagging keeps `RoleInv`: a call that has been seen and whose helper is listed
has a role of it, every other has what it had. That a walk that has returned has seen
every call is `VisitsAsRecursion`; that the instruction itself is never among what is
seen leaves a call without a result untagged.

Induction is first order here: over sets of numbers, from the least element of a
well-founded set (`IndFacts`). What a recursive function computes is proved by it,
once the function is shown to exist.

### What stays with TLC

* Liveness under fairness: `Ends` of `Walks` and of `MicroFilter`, and that a pass of
  `GotoMerge` without such a loop comes back (the other half of `Finishes`).
* The modules built on recursive operators over operands, statements or programs, which
  no backend can reason about: `Micro`, `PotentialBits`, `ArithRules`, `Dispatch`,
  `Combine`, `FlowRules`, `Glbopt`, `Codegen`, `LateIf`.

## Plan

The modules planned are written, and every safety property that a run checks is proved,
but for those of the modules listed above. To model, if anything: the mapping of register
parts in `mvm/`.

## Not modelled

* Printers, the module patching of `hexmod.cpp` (compiled out), project files.
* What nothing that is built calls: the bit graph and the simulator under
  `canon/`, the micro executor template, the second generation of walks and the
  expression collection in `hexutils.cpp`, the passes of `prepostprocess.cpp` but
  goto merging, `run_combinsn_fixups`, `preload_repetitive_ldx` and
  `merge_shortcircuit_nosideeffects` (under `#if 0`), the rules of files that are
  in no table (`shift_mod_bitsize`, `bytewise_shift` and others), and the
  generators and the rewriter for AVX, which are not installed.
* `combine_x86_band_high`, which returns false before it looks at anything.
* The tables of `mvm/`, of register names and of role names: data.
* Compile-time containers beyond the vectors, sort and intervals that other
  modules use.
* Printing, types, addresses and the ownership of operands in `mop.cpp` and
  `minsn.cpp`.
* The ARM rewriters: one does a part of what its x86 twin does, the other nothing.
