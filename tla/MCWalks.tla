------------------------------ MODULE MCWalks -------------------------------
\* Walks over every graph of a few blocks, of a few kinds of block each.
EXTENDS Walks
Other == Insn("other", NoSize)
Used == Insn("use", 4)
Call == Insn("spoil", NoSize)
Def4 == Insn("def", 4)
Def8 == Insn("def", 8)
Zeroed4 == Extension(4, 8)
Zeroed1 == Extension(1, 4)

MCDefCodes == {<<>>, <<Def4, Used>>}
MCClearCodes == {<<Used>>, <<Call>>, <<Def4, Used>>}
MCSizeCodes == {<<Other>>, <<Def4, Other>>, <<Def8, Other>>, <<Call, Other>>, <<Zeroed4, Other>>,
                <<Zeroed1, Other>>}
MCUseCodes == {<<>>, <<Other, Used>>, <<Used, Def4, Call>>}
\* No block ends in a branch with more than two targets.
Branching ==
  {g \in SUBSET (Blocks \X Blocks) : \A b \in Blocks : Cardinality(Succs(g, b)) <= 2}
Pools == {Blocks}

OtherOnly == {<<Other>>}
=============================================================================
