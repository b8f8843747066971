--------------------------- MODULE MCBoundedFifoQueue -------------------------
EXTENDS BoundedFifoQueue, TLC
CONSTANTS p1, p2, p3
ThreeProducers == {p1, p2, p3}
===============================================================================
