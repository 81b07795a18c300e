------------------------------- MODULE Tokens --------------------------------
(***************************************************************************)
(* The sign-in token of proxy/auth.go under the starts of the module       *)
(* Panel: what getTokenSource does between the launch of a goroutine and   *)
(* its Listen, and the goroutine it leaves behind to save the refreshed    *)
(* token.  token.json outlives the process, so it may hold a token at the  *)
(* start; a process that is killed leaves it as it is in that state.       *)
(***************************************************************************)
EXTENDS Panel

VARIABLES
  file,       (* the token in token.json, a number; 0 is none that parses  *)
  issued,     (* tokens issued so far, later ones having higher numbers    *)
  saver,      (* saver[g]: where start g is with its token, and which      *)
  spoilt      (* a save has failed, or two were made at once               *)

tokenVars == <<file, issued, saver, spoilt>>

TInit ==
  /\ Init
  /\ file \in {0, 1} /\ issued = 1
  /\ saver = [g \in Reqs |-> [pc |-> "none", token |-> 0]]
  /\ spoilt = FALSE

Saver(g, pc) == ~exited /\ saver[g].pc = pc
Saves(g, pc) == saver' = [saver EXCEPT ![g].pc = pc]
Beside == UNCHANGED vars

\* loadToken finds a token: getTokenSource returns at once, the token to be
\* refreshed and saved two seconds later.
LoadToken(g) ==
  /\ AuthOK(g) /\ Saver(g, "none") /\ file # 0
  /\ Saves(g, "sleep")
  /\ UNCHANGED <<file, issued, spoilt>>

\* It finds none, and the user is asked to sign in.
RequestToken(g) ==
  /\ Saver(g, "none") /\ gor[g] = "auth" /\ file = 0
  /\ Saves(g, "asking")
  /\ UNCHANGED <<file, issued, spoilt>> /\ Beside

RequestFails(g) == AuthFails(g) /\ Saver(g, "asking") /\ UNCHANGED tokenVars

\* A token is issued, to the user or to the goroutine of LoadToken.
Issue(g) ==
  /\ Saver(g, "asking") \/ Saver(g, "sleep")
  /\ saver' = [saver EXCEPT ![g] = [pc |-> "save", token |-> issued + 1]]
  /\ issued' = issued + 1
  /\ UNCHANGED <<file, spoilt>> /\ Beside

RefreshFails(g) ==
  /\ Saver(g, "sleep")
  /\ Saves(g, "end")
  /\ UNCHANGED <<file, issued, spoilt>> /\ Beside

\* saveToken: os.WriteFile empties the file, then writes it.  An error is
\* logged and no more.  The mutant forgets to save.
Forget(g) ==
  /\ Saver(g, "save")
  /\ Saves(g, "end")
  /\ UNCHANGED <<file, issued, spoilt>> /\ Beside
Truncate(g) ==
  /\ Saver(g, "save")
  /\ \/ file' = 0 /\ Saves(g, "write") /\ UNCHANGED spoilt
     \/ spoilt' = TRUE /\ Saves(g, "end") /\ UNCHANGED file
  /\ UNCHANGED issued /\ Beside

WriteOut(g) ==
  /\ Saver(g, "write")
  /\ spoilt' \in {spoilt \/ \E h \in Reqs \ {g} : saver[h].pc = "write", TRUE}
  /\ file' \in IF spoilt' THEN {0, saver[g].token} ELSE {saver[g].token}
  /\ Saves(g, "end")
  /\ UNCHANGED issued /\ Beside

\* getTokenSource returns to the goroutine that signed in.
SignedIn(g) == AuthOK(g) /\ Saver(g, "end") /\ UNCHANGED tokenVars

TNext ==
  \/ Printed /\ UNCHANGED tokenVars
  \/ \E r \in Reqs :
       \/ Arrive(r) /\ UNCHANGED tokenVars
       \/ Handler(r) /\ UNCHANGED tokenVars
       \/ (ListenOK(r) \/ ListenFails(r) \/ RunBot(r)) /\ UNCHANGED tokenVars
       \/ LoadToken(r) \/ RequestToken(r) \/ RequestFails(r) \/ Issue(r)
       \/ RefreshFails(r) \/ Truncate(r) \/ WriteOut(r) \/ SignedIn(r)

TSpec == TInit /\ [][TNext]_<<vars, tokenVars>>
TFairSpec == TSpec /\ Fairness

-----------------------------------------------------------------------------
TokenTypeOK ==
  /\ file \in 0..issued /\ issued \in Nat
  /\ saver \in [Reqs -> [pc : {"none", "asking", "sleep", "save", "write", "end"},
                         token : 0..issued]]
  /\ spoilt \in BOOLEAN

\* Whoever has signed in need not do so again: once a start is past it,
\* token.json holds a token that parses whenever the process may be killed,
\* except between the two halves of a write (auth.go:46), and as long as no save
\* failed or met another start's (auth.go:57 and :70 may both save).
TokenKept ==
  (\E g \in Reqs : gor[g] \in {"listen", "loop"}) /\ ~spoilt =>
    file # 0 \/ \E g \in Reqs : saver[g].pc = "write"
=============================================================================
