----------------------------- MODULE MCTransfer -----------------------------
EXTENDS Transfer, TLC

=============================================================================
