--------------------------- MODULE MCNav2Controller ---------------------------
EXTENDS Nav2Controller

\* At VMax, so that every limit has something to cut.
MCQpSpeeds == {3}

\* Below VMax and above VProbation, so that each of the three is the least in
\* some cycle; the terminal stop reaches from no speed to VMax.
MCSpeedLimits == {2}

\* For liveness, which costs most: jumping projections are enough to be rejected.
MCOneDisplacement == {0}
=============================================================================
