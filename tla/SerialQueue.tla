----------------------------- MODULE SerialQueue -----------------------------
(***************************************************************************)
(* What an event queue promises its callers, and what Quintet takes its    *)
(* queues of transformations to be: events are numbered as they are added, *)
(* they run one at a time, each once, in the order in which they came.     *)
(***************************************************************************)
EXTENDS Naturals, Sequences

VARIABLES pending, \* events that were added and have not begun
          current, \* the event that runs: a sequence of at most one
          done     \* events that ran, in the order in which they ended

vars == <<pending, current, done>>

Init == pending = <<>> /\ current = <<>> /\ done = <<>>

Add ==
  /\ pending' = Append(pending, Len(done) + Len(current) + Len(pending) + 1)
  /\ UNCHANGED <<current, done>>

Begin ==
  /\ current = <<>> /\ pending # <<>>
  /\ current' = <<Head(pending)>>
  /\ pending' = Tail(pending)
  /\ UNCHANGED done

End ==
  /\ current # <<>>
  /\ done' = Append(done, Head(current))
  /\ current' = <<>>
  /\ UNCHANGED pending

Next == Add \/ Begin \/ End

Spec == Init /\ [][Next]_vars
=============================================================================
