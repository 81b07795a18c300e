----------------------------- MODULE MCSessions -----------------------------
EXTENDS Sessions, TLC
CONSTANT s1

\* Commands around the packets for the server, which itself sends two.
OneStream ==
  s1 :> [client |-> <<TRUE, FALSE, TRUE, FALSE>>, server |-> <<FALSE, FALSE>>]
=============================================================================
