---------------------- MODULE MC_LivereloadMaster ---------------------------
EXTENDS LivereloadMaster
=============================================================================
