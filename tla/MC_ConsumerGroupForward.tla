--------------------- MODULE MC_ConsumerGroupForward ----------------------
EXTENDS ConsumerGroupForward
=============================================================================
