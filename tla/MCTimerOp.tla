------------------------------ MODULE MCTimerOp ------------------------------
EXTENDS TimerOp, TLC

=============================================================================
