-------------------------------- MODULE MCJoin --------------------------------
EXTENDS Join, TLC

=============================================================================
