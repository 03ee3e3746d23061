------------------------------ MODULE MCCancel ------------------------------
EXTENDS Cancel, TLC

=============================================================================
