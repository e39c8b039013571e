---------------------------- MODULE MCStraightRun ----------------------------
EXTENDS StraightRun

MCDisplacements == {0}

MCOneSpeed == {3}
=============================================================================
