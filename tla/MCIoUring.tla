------------------------------ MODULE MCIoUring ------------------------------
EXTENDS IoUring, TLC

=============================================================================
