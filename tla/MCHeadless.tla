----------------------------- MODULE MCHeadless -----------------------------
EXTENDS Headless
=============================================================================
