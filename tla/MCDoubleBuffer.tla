--------------------------- MODULE MCDoubleBuffer ---------------------------
\* Two readers, two setters and three sets.
EXTENDS DoubleBuffer
=============================================================================
