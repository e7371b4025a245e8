------------------------------ MODULE MCBitset ------------------------------
\* Two lists of two words, or one list or pool of three words.  A list and a pool
\* have nothing to do with each other.
EXTENDS Bitset, TLC
Alike == Permutations(Lists)
Untouched(s) == alloc[s] = 0
Short == \A s \in Objects : alloc[s] <= 2 * W
Used == {s \in Objects : ~Untouched(s)}
Together == Cardinality(Used) <= 1 \/ (Short /\ Used \subseteq Lists)
=============================================================================
