------------------------------- MODULE Relay --------------------------------
(***************************************************************************)
(* What proxied sessions promise their two ends: the packets of either end *)
(* that are meant for the other reach it in order, each once, none         *)
(* skipped; and once one end is gone the other is hung up.  Sessions       *)
(* implements it (proxy/proxy.go, proxy/session.go).                       *)
(***************************************************************************)
EXTENDS Integers, Sequences

CONSTANTS
  Sessions,     (* the sessions                                            *)
  Kept          (* Kept[s][e]: positions of the packets of end e to pass   *)

VARIABLES
  up,           (* up[s][e]: the connection to end e of s                  *)
  passed        (* passed[s][e]: positions of its packets passed on        *)

vars == <<up, passed>>

Ends == {"client", "server"}
Other(e) == IF e = "client" THEN "server" ELSE "client"
Arrived(s, e) == {passed[s][e][i] : i \in 1..Len(passed[s][e])}

Init ==
  /\ up = [s \in Sessions |-> [e \in Ends |-> "none"]]
  /\ passed = [s \in Sessions |-> [e \in Ends |-> << >>]]

Open(s, e) ==
  /\ up[s][e] = "none"
  /\ up' = [up EXCEPT ![s][e] = "open"]
  /\ UNCHANGED passed

Close(s, e) ==
  /\ up[s][e] = "open"
  /\ up' = [up EXCEPT ![s][e] = "closed"]
  /\ UNCHANGED passed

\* The next packet of e, the first that has not arrived, reaches the other end.
Pass(s, e) ==
  /\ up[s][Other(e)] = "open"
  /\ \E pk \in Kept[s][e] :
       /\ \A q \in Kept[s][e] : q < pk <=> q \in Arrived(s, e)
       /\ passed' = [passed EXCEPT ![s][e] = Append(@, pk)]
  /\ UNCHANGED up

HangUp(s, e) == up[s][Other(e)] = "closed" /\ Close(s, e)

Next == \E s \in Sessions, e \in Ends : Open(s, e) \/ Close(s, e) \/ Pass(s, e)

Spec == Init /\ [][Next]_vars
HangsUp == \A s \in Sessions, e \in Ends : WF_vars(HangUp(s, e))

FairSpec == Spec /\ HangsUp
=============================================================================
