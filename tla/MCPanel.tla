------------------------------ MODULE MCPanel -------------------------------
EXTENDS Tokens
=============================================================================
