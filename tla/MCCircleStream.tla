--------------------------- MODULE MCCircleStream ---------------------------
EXTENDS CircleStream

AllLengths == 0..Capacity + 1
=============================================================================
