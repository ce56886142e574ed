------------------------------- MODULE MCQuality -------------------------------
\* One object on a route of two posts, three tasks, one nonconformity.
EXTENDS Quality, TLC
CONSTANTS o1, t1, t2, t3, n1, h1, h2, p1

MCObjects == {o1}
MCTasks == {t1, t2, t3}
MCNCs == {n1}
MCThreads == {h1, h2}
MCParams == {p1}
MCSymmetry == Permutations(MCTasks) \cup Permutations(MCThreads)
=============================================================================
