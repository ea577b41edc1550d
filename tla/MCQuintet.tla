----------------------------- MODULE MCQuintet -----------------------------
(***************************************************************************)
(* The instances of Quintet that TLC checks.                                *)
(***************************************************************************)
EXTENDS Quintet

CONSTANTS
  Impatient,  \* the servers whose election timer expires
  MaxTerm,    \* the last term they stand for
  Repeated    \* the requests whose callers hear nothing in time and call again

Limit == [i \in Server |-> IF i \in Impatient THEN MaxTerm ELSE 0]

\* Clients try server after server: any request may reach any of them.
CallsMade == [i \in Server |-> [req \in Request |-> IF req \in Repeated THEN 2 ELSE 1]]

\* Servers that never stand for election are alike.
Followers == Permutations(Server \ Impatient)
=============================================================================
