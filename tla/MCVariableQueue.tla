-------------------------- MODULE MCVariableQueue ---------------------------
EXTENDS VariableQueue, TLC

CONSTANTS a, b

TwoIds == {a, b}

\* From an empty record to the longest and to one that does not fit, whole
\* numbers of words and others.
SomeLengths == {0, 4, 7, 16, 17}

Symmetry == Permutations(TwoIds)
=============================================================================
