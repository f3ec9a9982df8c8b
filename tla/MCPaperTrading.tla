----------------------------- MODULE MCPaperTrading -----------------------------
\* Instances of PaperTrading for TLC: one signal, two calls at a time. The
\* quantity does not divide the scale, so that money is rounded.
EXTENDS PaperTrading, TLC

CONSTANTS k1, k2, signal

MCClient == {k1, k2}

MCSignal == {signal}

MCQuantity == [s \in Signal |-> 3]

MCCaptured == [s \in Signal |-> 1]

MCCalculated == [s \in Signal |-> 1]

MCLastMoment == [s \in Signal |-> Horizon - 1]

ClientSymmetry == Permutations(MCClient)
=================================================================================
