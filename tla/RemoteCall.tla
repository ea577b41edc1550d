----------------------------- MODULE RemoteCall -----------------------------
(***************************************************************************)
(* What Quintet and Interface take the calls of one client to be: a message *)
(* that was sent reaches a handler once or never, as it was sent, and a call *)
(* that returns a value returns what the handler answered to its message.   *)
(***************************************************************************)
EXTENDS Naturals, Sequences

CONSTANTS Message, Answer

VARIABLES
  asked,    \* the messages, call by call
  given,    \* per call, at most one: what the handler got and what it answered
  returned  \* per call, at most one: the value returned to the caller

vars == <<asked, given, returned>>

Init == asked = <<>> /\ given = <<>> /\ returned = <<>>

Ask ==
  /\ \E m \in Message : asked' = Append(asked, m)
  /\ given' = Append(given, <<>>)
  /\ returned' = Append(returned, <<>>)

Give(k) ==
  /\ given[k] = <<>>
  /\ \E a \in Answer : given' = [given EXCEPT ![k] = <<[msg |-> asked[k], answer |-> a]>>]
  /\ UNCHANGED <<asked, returned>>

Return(k) ==
  /\ returned[k] = <<>> /\ given[k] # <<>>
  /\ returned' = [returned EXCEPT ![k] = <<given[k][1].answer>>]
  /\ UNCHANGED <<asked, given>>

Next == Ask \/ \E k \in 1..Len(asked) : Give(k) \/ Return(k)

Spec == Init /\ [][Next]_vars
=============================================================================
