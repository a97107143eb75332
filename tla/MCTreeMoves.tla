---------------------------- MODULE MCTreeMoves ----------------------------
EXTENDS TreeMoves

\* Two pages side by side, the third in the first.
StartTrees  == {<<None, None, 1>>}

\* Like dates: one in two units can be held, so there is a number between 14
\* and 18, none between 12 and 14, and these two are not crowded.
StartOrders == {<<12, 14, 18>>}
SmallDoubles == {x \in -8..30 : x < 10 \/ x % 2 = 0}
=============================================================================
