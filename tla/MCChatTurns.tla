---------------------------- MODULE MCChatTurns -----------------------------
\* Instances of ChatTurns for TLC.
EXTENDS ChatTurns, TLC

Symmetric == Permutations(Turns)
=============================================================================
