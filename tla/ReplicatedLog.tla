---------------------------- MODULE ReplicatedLog ----------------------------
(***************************************************************************)
(* What a cluster promises the services it replicates: there is one log, to *)
(* which each request is added at most once and from which nothing is ever  *)
(* taken, and every service is handed the requests of the log in their      *)
(* order, none left out and none a second time.                             *)
(***************************************************************************)
EXTENDS Naturals, Sequences

CONSTANTS Server, Request

VARIABLES
  log,    \* the requests, in the order in which they are executed
  handed  \* per server, what its service has been handed

vars == <<log, handed>>

Logged == {log[k] : k \in 1..Len(log)}

Init == log = <<>> /\ handed = [s \in Server |-> <<>>]

Log(req) ==
  /\ req \notin Logged
  /\ log' = Append(log, req)
  /\ UNCHANGED handed

\* A service is handed the next requests, one or several.
Hand(s) ==
  /\ \E n \in (Len(handed[s]) + 1)..Len(log) :
       handed' = [handed EXCEPT ![s] = SubSeq(log, 1, n)]
  /\ UNCHANGED log

Next == (\E req \in Request : Log(req)) \/ (\E s \in Server : Hand(s))

Spec == Init /\ [][Next]_vars
=============================================================================
