----------------------------- MODULE MCMblArray -----------------------------
\* MblArray over a function of two blocks, the last with or without a table.
EXTENDS MblArray
MCFirst == <<1, 2>>
MCTables == {<<>>, <<1, 0>>}
MCNews == {<<"push", NoEa>>, <<"other", 16>>}
=============================================================================
