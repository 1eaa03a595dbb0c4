------------------------------ MODULE MCLogger ------------------------------
\* Instances of Logger for TLC.
EXTENDS Logger

CONSTANTS p1, p2

MCProducers == {p1, p2}
=============================================================================
