--------------------------- MODULE MCNegativeControl --------------------------
EXTENDS NegativeControl
=============================================================================
