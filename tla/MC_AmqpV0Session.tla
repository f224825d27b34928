------------------------- MODULE MC_AmqpV0Session ---------------------------
EXTENDS AmqpV0Session, TLC

CONSTANTS c1, c2   \* channel ids

\* Channel ids are interchangeable: the loop never orders them.
ChannelSymmetry == Permutations({c1, c2})
=============================================================================
