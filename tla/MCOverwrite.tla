---------------------------- MODULE MCOverwrite ----------------------------
(***************************************************************************)
(* The smallest instance of Quintet in which a leader's log is overwritten  *)
(* and becomes shorter: a leader of term 1 takes two requests, one of term  *)
(* 2 only one.                                                              *)
(***************************************************************************)
EXTENDS Quintet

CONSTANTS s1, s2, r1, r2

FirstAndSecond == [i \in Server |-> IF i = s1 THEN 1 ELSE 2]

TwoAndOne ==
  [i \in Server |-> [req \in Request |-> IF i = s2 /\ req = r2 THEN 0 ELSE 1]]
=============================================================================
