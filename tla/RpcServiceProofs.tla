-------------------------- MODULE RpcServiceProofs ---------------------------
(***************************************************************************)
(* For any number of handlers, numRpcRemaining is exact, and what stop     *)
(* finds after its wait is a service in which no handler is at work.       *)
(***************************************************************************)
EXTENDS RpcService, FiniteSetTheorems, TLAPS

\* The handlers that the count is of.
Remaining == {h \in Handler : place[h] \in Counted}

\* They are finitely many.
LEMMA RemainingFinite ==
  IsFiniteSet(Remaining) /\ Cardinality(Remaining) \in Nat
<1>1. Remaining \subseteq Handler BY DEF Remaining
<1>2. IsFiniteSet(Remaining) BY <1>1, RpcBounds, FS_Subset
<1> QED BY <1>2, FS_CardinalityType

\* Initially nobody is counted.
LEMMA RpcInit == Init => TypeOK /\ RemainingIsExact /\ ShutdownFindsNobody
<1> SUFFICES ASSUME Init PROVE TypeOK /\ RemainingIsExact /\ ShutdownFindsNobody
  OBVIOUS
<1>1. TypeOK BY DEF Init, TypeOK, Place, Counted, StopPlace
<1>2. Remaining = {} BY DEF Init, Remaining, Counted
<1>3. RemainingIsExact BY <1>2, FS_EmptySet DEF RemainingIsExact, Remaining, Init
<1>4. ShutdownFindsNobody BY DEF Init, ShutdownFindsNobody
<1> QED BY <1>1, <1>3, <1>4

\* A step in which the same handlers remain keeps the count exact.
LEMMA SameRemaining ==
  ASSUME RemainingIsExact, Remaining' = Remaining,
         numRpcRemaining' = numRpcRemaining
  PROVE  RemainingIsExact'
BY DEF RemainingIsExact, Remaining

\* A move between counted places, or between places that are not counted.
LEMMA MoveKeepsRemaining ==
  ASSUME TypeOK, NEW h \in Handler, NEW p \in Place, Move(h, p),
         (p \in Counted) <=> (place[h] \in Counted)
  PROVE  Remaining' = Remaining /\ place' \in [Handler -> Place]
<1>1. place' = [place EXCEPT ![h] = p] /\ place \in [Handler -> Place]
  BY DEF Move, TypeOK
<1>2. \A g \in Handler : (place'[g] \in Counted) <=> (place[g] \in Counted)
  BY <1>1
<1> QED BY <1>1, <1>2 DEF Remaining

\* A notification wakes handlers that are counted before and after.
LEMMA NotifyKeepsRemaining ==
  ASSUME TypeOK
  PROVE  /\ AllNotified \in [Handler -> Place]
         /\ \A g \in Handler : (AllNotified[g] \in Counted) <=> (place[g] \in Counted)
<1>1. place \in [Handler -> Place] BY DEF TypeOK
<1>2. ASSUME NEW g \in Handler
      PROVE  /\ Notified(place[g]) \in Place
             /\ (Notified(place[g]) \in Counted) <=> (place[g] \in Counted)
  BY <1>1 DEF Notified, Place, Counted
<1> QED BY <1>2 DEF AllNotified

(***************************************************************************)
(* Types: one step per action.                                             *)
(***************************************************************************)
RpcInv == TypeOK /\ RemainingIsExact

\* The steps of a handler keep the types and the count.
LEMMA HandlerStepCounts ==
  ASSUME RpcInv, NEW h \in Handler, Accept(h) \/ HandlerStep(h)
  PROVE  RpcInv'
<1> USE DEF RpcInv
<1>1. place \in [Handler -> Place] BY DEF TypeOK
<1>2. CASE Accept(h)
  <2>1. Remaining' = Remaining /\ place' \in [Handler -> Place]
    BY <1>2, MoveKeepsRemaining DEF Accept, Place, Counted
  <2>2. RemainingIsExact' BY <1>2, <2>1, SameRemaining DEF Accept
  <2> QED BY <1>2, <2>1, <2>2 DEF Accept, TypeOK
<1>3. CASE PreRpc(h)
  <2>1. place' = [place EXCEPT ![h] = "entering"] /\ place[h] = "called"
    BY <1>3 DEF PreRpc, Move
  <2>2. place' \in [Handler -> Place] BY <1>1, <2>1 DEF Place, Counted
  <2>3. Remaining' = Remaining \cup {h} /\ h \notin Remaining
    BY <1>1, <2>1 DEF Remaining, Counted
  <2>4. Cardinality(Remaining') = Cardinality(Remaining) + 1
    BY <2>3, RemainingFinite, FS_AddElement
  <2>5. RemainingIsExact'
    BY <1>3, <2>4 DEF PreRpc, RemainingIsExact, Remaining
  <2>6. numRpcRemaining' \in Nat BY <1>3 DEF PreRpc, TypeOK
  <2> QED BY <1>3, <2>2, <2>5, <2>6 DEF PreRpc, TypeOK, counters
<1>4. CASE Enter(h) \/ Block(h) \/ Wait(h) \/ Serve(h)
  <2>1. PICK p \in {"running", "blocking", "waiting", "left"} :
          Move(h, p) /\ place[h] \in Counted
    BY <1>4 DEF Enter, Block, Wait, Serve, Counted
  <2>2. p \in Place /\ p \in Counted BY <2>1 DEF Place, Counted
  <2>3. Remaining' = Remaining /\ place' \in [Handler -> Place]
    BY <2>1, <2>2, MoveKeepsRemaining
  <2>4. UNCHANGED <<numRpcRemaining, paused, transformer, stopper, accepting, calls,
                    transforms, stops>>
    BY <1>4 DEF Enter, Block, Wait, Serve, counters
  <2>5. RemainingIsExact' BY <2>3, <2>4, SameRemaining
  <2> QED BY <2>3, <2>4, <2>5 DEF TypeOK
<1>5. CASE Uncount(h)
  <2>1. place' = [place EXCEPT ![h] = "uncounted"] /\ place[h] = "left"
    BY <1>5 DEF Uncount, Move
  <2>2. place' \in [Handler -> Place] BY <1>1, <2>1 DEF Place
  <2>3. Remaining' = Remaining \ {h} /\ h \in Remaining
    BY <1>1, <2>1 DEF Remaining, Counted
  <2>4. Cardinality(Remaining') = Cardinality(Remaining) - 1
    BY <2>3, RemainingFinite, FS_RemoveElement
  <2>5. RemainingIsExact'
    BY <1>5, <2>4 DEF Uncount, RemainingIsExact, Remaining
  <2>6. IsFiniteSet(Remaining')
    BY <2>3, RemainingFinite, FS_RemoveElement
  <2>7. numRpcRemaining' \in Nat
    BY <2>5, <2>6, FS_CardinalityType DEF RemainingIsExact, Remaining
  <2> QED BY <1>5, <2>2, <2>5, <2>7 DEF Uncount, TypeOK, counters
<1>6. CASE Return(h)
  <2>1. place' = [AllNotified EXCEPT ![h] = "none"] /\ place[h] = "uncounted"
    BY <1>6 DEF Return
  <2>2. place' \in [Handler -> Place] BY <2>1, NotifyKeepsRemaining DEF Place
  <2>3. \A g \in Handler : (place'[g] \in Counted) <=> (place[g] \in Counted)
    BY <2>1, NotifyKeepsRemaining DEF Counted
  <2>4. Remaining' = Remaining BY <2>3 DEF Remaining
  <2>5. RemainingIsExact' BY <1>6, <2>4, SameRemaining DEF Return
  <2>6. stopper' \in StopPlace BY <1>6 DEF Return, TypeOK, Notified, StopPlace
  <2> QED BY <1>6, <2>2, <2>5, <2>6 DEF Return, TypeOK, counters
<1> QED BY <1>2, <1>3, <1>4, <1>5, <1>6 DEF HandlerStep

\* A step after which every handler is where it was or has been notified.
LEMMA OthersCount ==
  ASSUME RpcInv, place' \in {place, AllNotified}, numRpcRemaining' = numRpcRemaining
  PROVE  RemainingIsExact' /\ place' \in [Handler -> Place]
<1>1. TypeOK /\ RemainingIsExact BY DEF RpcInv
<1>2. /\ place' \in [Handler -> Place]
      /\ \A g \in Handler : (place'[g] \in Counted) <=> (place[g] \in Counted)
  BY <1>1, NotifyKeepsRemaining DEF TypeOK
<1>3. Remaining' = Remaining BY <1>2 DEF Remaining
<1> QED BY <1>1, <1>2, <1>3, SameRemaining

\* The steps of transformations and of stop keep the types and the count.
LEMMA OtherStepCounts ==
  ASSUME RpcInv, Pause \/ TransformerStep \/ CallStop \/ StopStep
  PROVE  RpcInv'
<1>1. place' \in {place, AllNotified} /\ numRpcRemaining' = numRpcRemaining
  BY DEF Pause, TransformerStep, Resume, ResumeNotify, CallStop, StopStep, StopNotify,
         StopBlock, StopWait, StopDrained, Shutdown, StopReturn
<1>2. RemainingIsExact' /\ place' \in [Handler -> Place] BY <1>1, OthersCount
<1>3. TypeOK BY DEF RpcInv
<1>4. CASE Pause \/ TransformerStep
  <2>1. stopper' \in StopPlace
    BY <1>3, <1>4 DEF Pause, TransformerStep, Resume, ResumeNotify, TypeOK, Notified, StopPlace
  <2> USE <1>3, <1>4 DEF Pause, TransformerStep, Resume, ResumeNotify, TypeOK, counters
  <2>2. paused' \in BOOLEAN /\ accepting' \in BOOLEAN BY Zenon
  <2>3. transformer' \in {"out", "transforming", "resuming"} OBVIOUS
  <2>4. calls' = calls /\ stops' = stops /\ transforms' \in Nat OBVIOUS
  <2> QED BY <1>1, <1>2, <2>1, <2>2, <2>3, <2>4 DEF RpcInv
<1>5. CASE CallStop \/ StopStep
  <2> USE <1>3, <1>5 DEF CallStop, StopStep, StopNotify, StopBlock, StopWait, StopDrained,
                         Shutdown, StopReturn, TypeOK, counters
  <2>1. stopper' \in StopPlace BY DEF StopPlace
  <2>2. paused' \in BOOLEAN /\ accepting' \in BOOLEAN BY Zenon
  <2>3. transformer' = transformer /\ calls' = calls /\ transforms' = transforms
    OBVIOUS
  <2>4. stops' \in Nat OBVIOUS
  <2> QED BY <1>1, <1>2, <2>1, <2>2, <2>3, <2>4 DEF RpcInv
<1> QED BY <1>4, <1>5

\* Every step keeps the types and the count.
LEMMA RpcStep == RpcInv /\ [Next]_vars => RpcInv'
<1> SUFFICES ASSUME RpcInv, [Next]_vars PROVE RpcInv'
  OBVIOUS
<1>1. CASE UNCHANGED vars
  <2>1. Remaining' = Remaining BY <1>1 DEF vars, Remaining
  <2> QED BY <1>1, <2>1, SameRemaining DEF vars, counters, RpcInv, TypeOK
<1>2. CASE Next
  BY <1>2, HandlerStepCounts, OtherStepCounts DEF Next
<1> QED BY <1>1, <1>2

(***************************************************************************)
(* What stop finds.                                                        *)
(***************************************************************************)
\* With rpcing held, no step brings a handler to work.
LEMMA FindsNobodyStep ==
  RpcInv /\ ShutdownFindsNobody /\ [Next]_vars => ShutdownFindsNobody'
<1> DEFINE Aside(p) == p \in {"none", "called", "entering", "uncounted"}
<1> SUFFICES ASSUME RpcInv, ShutdownFindsNobody, [Next]_vars,
                    stopper' \in {"drained", "shutting"}, NEW g \in Handler
             PROVE  Aside(place'[g])
  BY DEF ShutdownFindsNobody
<1>1. place \in [Handler -> Place] BY DEF RpcInv, TypeOK
<1>2. CASE StopDrained
  <2>1. Cardinality(Remaining) = 0
    BY <1>2 DEF StopDrained, NoneRemains, RpcInv, RemainingIsExact, Remaining
  <2>2. Remaining = {} BY <2>1, RemainingFinite, FS_EmptySet
  <2>3. place[g] \notin Counted BY <2>2 DEF Remaining
  <2> QED BY <1>1, <1>2, <2>3 DEF StopDrained, Place, Counted
<1>3. CASE ~StopDrained
  <2>1. stopper \in {"drained", "shutting"}
    BY <1>3 DEF Next, HandlerStep, Accept, PreRpc, Enter, Block, Wait, Serve, Uncount,
       Return, Pause, TransformerStep, Resume, ResumeNotify, CallStop, StopStep,
       StopNotify, StopBlock, StopWait, Shutdown, StopReturn, vars, Notified
  <2>2. \A h \in Handler : Aside(place[h]) BY <2>1 DEF ShutdownFindsNobody
  <2>3. ~Unlocked BY <2>1 DEF Unlocked
  <2>4. ASSUME NEW h \in Handler, Accept(h) \/ HandlerStep(h) PROVE Aside(place'[g])
    <3>1. CASE \E p \in {"called", "entering", "uncounted"} : Move(h, p)
      BY <1>1, <2>2, <3>1 DEF Move
    <3>2. CASE Return(h)
      BY <2>2, <3>2 DEF Return, AllNotified, Notified
    <3>3. ~Enter(h) /\ ~Block(h) BY <2>3 DEF Enter, Block
    <3>4. ~Wait(h) /\ ~Serve(h) BY <2>2 DEF Wait, Serve
    <3> QED BY <2>4, <3>1, <3>2, <3>3, <3>4 DEF Accept, HandlerStep, PreRpc, Uncount
  <2>5. CASE Pause \/ TransformerStep \/ CallStop \/ StopStep
    <3>1. place' \in {place, AllNotified}
      BY <2>5 DEF Pause, TransformerStep, Resume, ResumeNotify, CallStop, StopStep,
         StopNotify, StopBlock, StopWait, StopDrained, Shutdown, StopReturn
    <3> QED BY <2>2, <3>1 DEF AllNotified, Notified
  <2>6. CASE UNCHANGED vars BY <2>2, <2>6 DEF vars
  <2> QED BY <2>4, <2>5, <2>6 DEF Next
<1> QED BY <1>2, <1>3

\* The variables of RpcService keep their types through every handler, pause,
\* transformation and stop.
THEOREM RpcTypeCorrect == Spec => []TypeOK
<1>1. Init => RpcInv BY RpcInit DEF RpcInv
<1>2. RpcInv => TypeOK BY DEF RpcInv
<1> QED BY <1>1, <1>2, RpcStep, PTL DEF Spec

\* numRpcRemaining counts the handlers between preRpc and its deleter, for any
\* number of handlers, calls, transformations and stops.
THEOREM RemainingCounted == Spec => []RemainingIsExact
<1>1. Init => RpcInv BY RpcInit DEF RpcInv
<1>2. RpcInv => RemainingIsExact BY DEF RpcInv
<1> QED BY <1>1, <1>2, RpcStep, PTL DEF Spec

\* When stop goes on from its wait to Shutdown, no handler runs its function or
\* sleeps in a wait, for any number of handlers.
THEOREM ShutdownIsQuiet == Spec => []ShutdownFindsNobody
<1>1. Init => RpcInv /\ ShutdownFindsNobody BY RpcInit DEF RpcInv
<1>2. RpcInv /\ ShutdownFindsNobody /\ [Next]_vars => (RpcInv /\ ShutdownFindsNobody)'
  BY RpcStep, FindsNobodyStep
<1> QED BY <1>1, <1>2, PTL DEF Spec
=============================================================================
