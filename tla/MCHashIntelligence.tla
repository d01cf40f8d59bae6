------------------------- MODULE MCHashIntelligence -------------------------
EXTENDS HashIntelligence

MCSources == <<"list", "remote">>

\* The remote source knows one release from the start and comes to know the
\* other, which is on the list.
MCKnown == {<<"r1", 2>>, <<"r2", 1>>}
MCLearnable == {<<"r2", 2>>}

Spec == HashSpec /\ HashFairness
=============================================================================
