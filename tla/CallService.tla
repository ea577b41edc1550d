----------------------------- MODULE CallService ------------------------------
(***************************************************************************)
(* What Interface promises those who call an operation, whatever Raft does *)
(* below: every server executes only what was called, and the future of a  *)
(* call, once ready, holds the result of its own execution, the first on   *)
(* the server it was made on, which does not go on after a second.  A      *)
(* result is told apart by its place in what the server executes.          *)
(***************************************************************************)
EXTENDS Naturals, Sequences

CONSTANTS Server, Call  \* a call is the server it is made on, and a number

VARIABLES called, executed, answer, dead

vars == <<called, executed, answer, dead>>

Init ==
  /\ called = {} /\ executed = [s \in Server |-> <<>>]
  /\ answer = [c \in Call |-> 0]
  /\ dead = {}

Invoke(c) ==
  /\ c \notin called /\ c[1] \notin dead
  /\ called' = called \cup {c}
  /\ UNCHANGED <<executed, answer, dead>>

\* s executes c, which is another server's, or its own for the first time ...
Execute(s, c) ==
  /\ s \notin dead /\ c \in called
  /\ executed' = [executed EXCEPT ![s] = Append(@, c)]
  /\ IF c[1] # s
     THEN UNCHANGED answer
     ELSE answer[c] = 0 /\ answer' = [answer EXCEPT ![c] = Len(executed'[s])]
  /\ UNCHANGED <<called, dead>>

\* ... or once more.
ExecuteAgain(s, c) ==
  /\ s \notin dead /\ c \in called /\ c[1] = s /\ answer[c] # 0
  /\ executed' = [executed EXCEPT ![s] = Append(@, c)]
  /\ dead' = dead \cup {s}
  /\ UNCHANGED <<called, answer>>

End(s) ==
  /\ s \notin dead
  /\ dead' = dead \cup {s}
  /\ UNCHANGED <<called, executed, answer>>

Next ==
  \/ \E c \in Call : Invoke(c)
  \/ \E s \in Server : End(s) \/ \E c \in Call : Execute(s, c) \/ ExecuteAgain(s, c)

Spec == Init /\ [][Next]_vars
=============================================================================
