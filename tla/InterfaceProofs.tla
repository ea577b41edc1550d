--------------------------- MODULE InterfaceProofs ---------------------------
(***************************************************************************)
(* For any number of servers and calls, and whatever Raft hands them: the  *)
(* Interface implements CallService, apply finds the promise of every      *)
(* entry of its own server that was not handed to it before, and Shutdown  *)
(* leaves no thread behind.                                                *)
(***************************************************************************)
EXTENDS Interface, SequenceTheorems, TLAPS

-----------------------------------------------------------------------------
\* Types

\* A sequence with one entry more.
LEMMA HandedMore ==
  ASSUME NEW q \in Seq(Call), NEW c \in Call
  PROVE  /\ Append(q, c) \in Seq(Call) /\ Len(Append(q, c)) = Len(q) + 1
         /\ Len(q) \in Nat
         /\ \A k \in 1..Len(q) : Append(q, c)[k] = q[k]
         /\ Append(q, c)[Len(q) + 1] = c
BY AppendProperties, LenProperties

\* Servers are natural numbers, and the next one is a server.
LEMMA NextServerType == \A t \in Server : NextServer(t) \in Server
<1> SUFFICES ASSUME NEW t \in Server PROVE NextServer(t) \in Server
  OBVIOUS
<1>1. N \in Nat \ {0} /\ t \in 1..N BY InterfaceBounds DEF Server
<1>2. t % N \in 0..(N - 1) BY <1>1
<1> QED BY <1>1, <1>2 DEF NextServer, Server

LEMMA TypeInit ==
  ASSUME Init
  PROVE  TypeOK
<1>1. 1 \in Server BY InterfaceBounds DEF Server
<1> QED BY <1>1 DEF Init, TypeOK, Place, Stage

\* A request that is given up leaves requests behind.
LEMMA GiveUpType ==
  ASSUME TypeOK, NEW c \in Call, GiveUp(c)
  PROVE  /\ requests' \subseteq Request
         /\ \A m \in requests' :
              \/ ~m.live /\ (m \in requests \/ m.call = c)
              \/ m \in requests /\ ~(m.call = c /\ m.to = target[c])
<1> DEFINE m0 == [call |-> c, to |-> target[c], live |-> TRUE]
           late == {r \in requests : ~r.live} \cup {[m0 EXCEPT !.live = FALSE]}
<1>1. m0 \in Request /\ target[c] \in Server BY DEF TypeOK, Request
<1>2. /\ [m0 EXCEPT !.live = FALSE] \in Request
      /\ ~[m0 EXCEPT !.live = FALSE].live /\ [m0 EXCEPT !.live = FALSE].call = c
  BY <1>1 DEF Request
<1>3. \A m \in requests : m \in Request BY DEF TypeOK
<1>4. \A m \in Request : m.live /\ m.call = c /\ m.to = target[c] => m = m0
  BY DEF Request
<1>5. requests' = requests \ {m0} \/ requests' = (requests \ {m0}) \cup late
  BY DEF GiveUp
<1>6. \A m \in late : ~m.live /\ m \in Request /\ (m \in requests \/ m.call = c)
  BY <1>2, <1>3
<1> HIDE DEF m0, late
<1>7. requests' \subseteq Request BY <1>3, <1>5, <1>6
<1>8. ASSUME NEW m \in requests'
      PROVE  \/ ~m.live /\ (m \in requests \/ m.call = c)
             \/ m \in requests /\ ~(m.call = c /\ m.to = target[c])
  <2>1. CASE m \in late BY <1>6, <2>1
  <2>2. CASE m \notin late
    <3>1. m \in requests /\ m # m0 BY <1>5, <1>8, <2>2
    <3>2. m \in Request BY <1>3, <3>1
    <3> QED BY <1>4, <3>1, <3>2
  <2> QED BY <2>1, <2>2
<1> QED BY <1>7, <1>8

\* A thread's steps keep the types.
LEMMA TypeThread ==
  ASSUME TypeOK, NEW c \in Call, AsyncCall(c) \/ ThreadStep(c) \/ Fail(c)
  PROVE  TypeOK'
<1> USE DEF applyVars, raftVars, callVars
<1>1. /\ c[1] \in Server /\ c[2] \in Nat /\ 1 \in Server
      /\ place \in [Call -> Place] /\ target \in [Call -> Server]
  <2>1. c[1] \in Server /\ c[2] \in 0..(MaxCalls - 1) BY DEF Call
  <2>2. N \in Nat \ {0} /\ MaxCalls \in Nat BY InterfaceBounds
  <2>3. c[2] \in Nat /\ 1 \in Server BY <2>1, <2>2 DEF Server
  <2> QED BY <2>1, <2>3 DEF TypeOK
<1>2. CASE AsyncCall(c)
  <2>1. prms' \in [Server -> SUBSET Nat]
    <3>1. prms[c[1]] \cup {c[2]} \in SUBSET Nat BY <1>1 DEF TypeOK
    <3>2. prms \in [Server -> SUBSET Nat] BY DEF TypeOK
    <3>3. prms' = [prms EXCEPT ![c[1]] = prms[c[1]] \cup {c[2]}]
      BY <1>2 DEF AsyncCall
    <3> QED BY <3>1, <3>2, <3>3
  <2>2. curPrmIdx' \in [Server -> Nat] /\ place' \in [Call -> Place]
    <3>1. curPrmIdx' = [curPrmIdx EXCEPT ![c[1]] = curPrmIdx[c[1]] + 1]
      BY <1>2 DEF AsyncCall
    <3>2. curPrmIdx' \in [Server -> Nat] BY <1>1, <3>1 DEF TypeOK
    <3>3. place' \in [Call -> Place] BY <1>1, <1>2 DEF AsyncCall, Move, Place
    <3> QED BY <3>2, <3>3
  <2>3. UNCHANGED <<target, interrupted, requests, stage, applied, answer, handed,
                    logged>>
    BY <1>2 DEF AsyncCall
  <2> QED BY <2>1, <2>2, <2>3 DEF TypeOK
<1>3. ASSUME NEW to \in Server, Send(c, to)
      PROVE  target' \in [Call -> Server] /\ requests' \subseteq Request
  <2>1. [call |-> c, to |-> to, live |-> TRUE] \in Request BY DEF Request
  <2> QED BY <1>1, <1>3, <2>1 DEF Send, TypeOK
<1>4. CASE StartThread(c)
  <2>1. target' \in [Call -> Server] /\ requests' \subseteq Request
    BY <1>1, <1>3, <1>4 DEF StartThread
  <2> QED BY <1>1, <1>4, <2>1 DEF StartThread, Move, Place, TypeOK
<1>5. CASE TryNext(c)
  <2>1. target' \in [Call -> Server] /\ requests' \subseteq Request
    BY <1>1, <1>3, <1>5, NextServerType DEF TryNext
  <2> QED BY <1>1, <1>5, <2>1 DEF TryNext, Move, Place, TypeOK
<1>6. CASE End(c)
  BY <1>1, <1>6 DEF End, Move, Place, TypeOK
<1>7. CASE EndInterrupted(c)
  BY <1>1, <1>7, GiveUpType DEF EndInterrupted, Move, Place, TypeOK
<1>8. CASE Fail(c)
  BY <1>1, <1>8, GiveUpType DEF Fail, Move, Place, TypeOK
<1>9. CASE Terminate(c)
  BY <1>1, <1>9 DEF Terminate, Stage, TypeOK
<1> QED BY <1>2, <1>4, <1>5, <1>6, <1>7, <1>8, <1>9 DEF ThreadStep

\* Raft's steps keep the types.
LEMMA TypeRaft ==
  ASSUME TypeOK,
         \/ \E m \in requests : Serve(m)
         \/ \E s \in Server, c \in Call : Hand(s, c)
  PROVE  TypeOK'
<1> USE DEF applyVars, callVars, raftVars
<1>1. ASSUME NEW m \in requests, Serve(m) PROVE TypeOK'
  <2>1. m.call \in Call BY DEF TypeOK, Request
  <2>2. place' \in [Call -> Place]
    BY <1>1, <2>1 DEF Serve, Accept, Refuse, Reply, TypeOK, Place
  <2>3. requests' \subseteq Request /\ logged' \subseteq Call
    BY <1>1, <2>1 DEF Serve, Accept, Refuse, Reply, TypeOK
  <2> QED BY <1>1, <2>2, <2>3 DEF Serve, Accept, Refuse, TypeOK
<1>2. ASSUME NEW s \in Server, NEW c \in Call, Hand(s, c) PROVE TypeOK'
  <2>1. handed' = [handed EXCEPT ![s] = Append(handed[s], c)] BY <1>2 DEF Hand
  <2>2. handed \in [Server -> Seq(Call)] /\ handed[s] \in Seq(Call) BY DEF TypeOK
  <2>3. /\ Append(handed[s], c) \in Seq(Call)
        /\ Len(Append(handed[s], c)) = Len(handed[s]) + 1 /\ Len(handed[s]) \in Nat
    BY <2>2, HandedMore
  <2>4. handed' \in [Server -> Seq(Call)] BY <2>1, <2>2, <2>3
  <2>5. \A t \in Server : applied[t] <= Len(handed'[t])
    BY <2>1, <2>2, <2>3 DEF TypeOK
  <2> QED BY <1>2, <2>4, <2>5 DEF Hand, TypeOK
<1> QED BY <1>1, <1>2

\* What is executed next was handed over.
LEMMA AppliesEntry ==
  ASSUME TypeOK, NEW s \in Server, Apply(s)
  PROVE  /\ applied[s] \in Nat /\ applied[s] + 1 \in 1..Len(handed[s])
         /\ handed[s] \in Seq(Call) /\ handed[s][applied[s] + 1] \in Call
<1>1. handed[s] \in Seq(Call) /\ applied[s] \in Nat BY DEF TypeOK
<1>2. Len(handed[s]) \in Nat BY <1>1, LenProperties
<1>3. applied[s] + 1 \in 1..Len(handed[s]) BY <1>1, <1>2 DEF Apply
<1> QED BY <1>1, <1>3, ElementOfSeq

\* A server's own steps keep the types.
LEMMA TypeServer ==
  ASSUME TypeOK, NEW s \in Server, Shutdown(s) \/ ServerStep(s)
  PROVE  TypeOK'
<1> USE DEF applyVars, callVars, raftVars
<1>1. CASE Apply(s)
  <2> DEFINE c == handed[s][applied[s] + 1]
  <2>1. /\ applied[s] \in Nat /\ applied[s] + 1 \in 1..Len(handed[s]) /\ c \in Call
        /\ applied[s] + 1 <= Len(handed[s])
    BY <1>1, AppliesEntry
  <2>2. c[2] \in Nat /\ (c[1] = s => <<s, c[2]>> \in Call)
    BY <2>1 DEF Call
  <2>3. /\ applied' \in [Server -> Nat] /\ handed' = handed
        /\ \A t \in Server : applied'[t] <= Len(handed[t])
    BY <1>1, <2>1 DEF Apply, TypeOK
  <2>4. \/ UNCHANGED <<prms, answer, stage>>
        \/ stage' = [stage EXCEPT ![s] = "crashed"] /\ UNCHANGED <<prms, answer>>
        \/ /\ c[1] = s /\ prms' = [prms EXCEPT ![s] = @ \ {c[2]}]
           /\ answer' = [answer EXCEPT ![<<s, c[2]>>] = applied[s] + 1]
           /\ UNCHANGED stage
    BY <1>1 DEF Apply, Own, Erased
  <2>5. UNCHANGED <<curPrmIdx, place, target, interrupted, requests, handed, logged>>
    BY <1>1 DEF Apply
  <2> HIDE DEF c
  <2>6. prms' \in [Server -> SUBSET Nat] /\ stage' \in [Server -> Stage]
    <3>1. prms[s] \ {c[2]} \in SUBSET Nat BY DEF TypeOK
    <3>2. stage' \in [Server -> Stage] BY <2>4 DEF TypeOK, Stage
    <3>3. CASE prms' = [prms EXCEPT ![s] = @ \ {c[2]}]
      <4> DEFINE P == SUBSET Nat
      <4>1. prms \in [Server -> P] /\ prms[s] \ {c[2]} \in P BY <3>1 DEF TypeOK
      <4> HIDE DEF P
      <4>2. prms' \in [Server -> P] BY <3>3, <4>1
      <4> QED BY <3>2, <4>2 DEF P
    <3>4. CASE prms' = prms
      BY <3>2, <3>4 DEF TypeOK
    <3> QED BY <2>4, <3>3, <3>4
  <2>7. answer' \in [Call -> Nat]
    <3>1. applied[s] + 1 \in Nat BY DEF TypeOK
    <3> QED BY <2>2, <2>4, <3>1 DEF TypeOK
  <2> QED BY <2>3, <2>5, <2>6, <2>7 DEF TypeOK
<1>2. CASE Shutdown(s)
  BY <1>2 DEF Shutdown, Stage, TypeOK
<1>3. CASE ClearWithInterruption(s)
  <2>1. interrupted' \in [Call -> BOOLEAN]
    BY <1>3 DEF ClearWithInterruption, TypeOK
  <2> QED BY <1>3, <2>1 DEF ClearWithInterruption, Stage, TypeOK
<1>4. CASE ShutdownReturn(s)
  BY <1>4 DEF ShutdownReturn, Stage, TypeOK
<1> QED BY <1>1, <1>2, <1>3, <1>4 DEF ServerStep

LEMMA TypeStep ==
  ASSUME TypeOK, [Next]_vars
  PROVE  TypeOK'
<1>1. CASE UNCHANGED vars
  BY <1>1 DEF vars, callVars, applyVars, raftVars, TypeOK
<1> QED BY <1>1, TypeThread, TypeRaft, TypeServer DEF Next

\* The variables have their types, and in particular target is always a server:
\* the iterator over srvList never passes its end.
THEOREM InterfaceTypeCorrect == Spec => []TypeOK
BY TypeInit, TypeStep, PTL DEF Spec

-----------------------------------------------------------------------------
\* Promises

\* What a server has executed of the call c, and the part of it that is handed over.
Executed(c) == \E k \in 1..applied[c[1]] : handed[c[1]][k] = c

\* What is requested, logged or handed over was made; the promise of a call is there
\* from the time it is made until its own server executes it.
PromiseInv ==
  /\ \A m \in requests : place[m.call] # "none"
  /\ \A c \in logged : place[c] # "none"
  /\ \A s \in Server : \A k \in 1..Len(handed[s]) : place[handed[s][k]] # "none"
  /\ \A c \in Call : place[c] # "none" => c[2] \in prms[c[1]] \/ Executed(c)

\* A call is answered when its promise is kept, and not before.
AnswerInv ==
  \A c \in Call : IF place[c] = "none"
                  THEN answer[c] = 0
                  ELSE answer[c] = 0 <=> c[2] \in prms[c[1]]

CallInv == TypeOK /\ PromiseInv /\ AnswerInv

\* The calls that are named somewhere are calls.
LEMMA CallsNamed ==
  ASSUME TypeOK
  PROVE  /\ \A m \in requests : m.call \in Call
         /\ \A c \in logged : c \in Call
         /\ \A s \in Server : \A k \in 1..Len(handed[s]) : handed[s][k] \in Call
         /\ \A c \in Call : c[1] \in Server /\ c = <<c[1], c[2]>>
<1>1. \A m \in requests : m.call \in Call BY DEF TypeOK, Request
<1>2. \A c \in logged : c \in Call BY DEF TypeOK
<1>3. ASSUME NEW s \in Server, NEW k \in 1..Len(handed[s]) PROVE handed[s][k] \in Call
  <2>1. handed[s] \in Seq(Call) BY DEF TypeOK
  <2> QED BY <1>3, <2>1, ElementOfSeq
<1>4. \A c \in Call : c[1] \in Server /\ c = <<c[1], c[2]>> BY DEF Call
<1> QED BY <1>1, <1>2, <1>3, <1>4

\* A step that makes and executes no call, nor hands one over.
LEMMA CallKept ==
  ASSUME CallInv, UNCHANGED <<handed, applyVars>>,
         \A c \in Call : place'[c] = "none" <=> place[c] = "none",
         \A c \in logged' : c \in Call /\ place[c] # "none",
         \A m \in requests' : m.call \in Call /\ place[m.call] # "none"
  PROVE  PromiseInv' /\ AnswerInv'
<1>1. handed' = handed /\ applied' = applied /\ prms' = prms /\ answer' = answer
  BY DEF applyVars
<1>2. \A s \in Server : \A k \in 1..Len(handed[s]) : handed[s][k] \in Call
  BY CallsNamed DEF CallInv
<1>3. PromiseInv'
  <2>1. /\ \A m \in requests' : place'[m.call] # "none"
        /\ \A c \in logged' : place'[c] # "none"
    OBVIOUS
  <2>2. \A s \in Server : \A k \in 1..Len(handed[s]) : place'[handed[s][k]] # "none"
    BY <1>2 DEF CallInv, PromiseInv
  <2>3. \A c \in Call : place'[c] # "none" => c[2] \in prms[c[1]] \/ Executed(c)
    BY DEF CallInv, PromiseInv
  <2>4. \A c \in Call : Executed(c)' <=> Executed(c) BY <1>1 DEF Executed
  <2> HIDE DEF Executed
  <2> QED BY <1>1, <2>1, <2>2, <2>3, <2>4 DEF PromiseInv
<1>4. AnswerInv' BY <1>1 DEF CallInv, AnswerInv
<1> QED BY <1>3, <1>4

\* The thread of a call, once the call was made.
LEMMA CallThread ==
  ASSUME CallInv, NEW c \in Call, ThreadStep(c) \/ Fail(c)
  PROVE  /\ PromiseInv' /\ AnswerInv'
         /\ \A d \in Call : place'[d] = "none" <=> place[d] = "none"
<1> USE DEF raftVars, callVars
<1>1. TypeOK /\ place \in [Call -> Place] BY DEF CallInv, TypeOK
<1>2. UNCHANGED <<handed, logged, applyVars>>
  BY DEF ThreadStep, StartThread, TryNext, End, EndInterrupted, Fail, Terminate
<1>3. /\ \A m \in requests : m.call \in Call /\ place[m.call] # "none"
      /\ \A d \in logged : d \in Call /\ place[d] # "none"
  BY <1>1, CallsNamed DEF CallInv, PromiseInv
<1>4. CASE Terminate(c)
  <2>1. place' = place /\ requests' = requests BY <1>4 DEF Terminate
  <2> QED BY <1>2, <1>3, <2>1, CallKept
<1>5. CASE ~Terminate(c)
  <2>1. place[c] # "none"
    BY <1>5 DEF ThreadStep, StartThread, TryNext, End, EndInterrupted, Fail
  <2>2. \E p \in {"calling", "refused", "ended"} : Move(c, p)
    BY <1>5 DEF ThreadStep, StartThread, TryNext, End, EndInterrupted, Fail
  <2>3. \A d \in Call : place'[d] = "none" <=> place[d] = "none"
    BY <1>1, <2>1, <2>2 DEF Move
  <2>4. \/ requests' = requests
        \/ GiveUp(c)
        \/ \E to \in Server : requests' = requests \cup {[call |-> c, to |-> to, live |-> TRUE]}
    <3>1. 1 \in Server BY InterfaceBounds DEF Server
    <3>2. NextServer(target[c]) \in Server BY NextServerType, <1>1 DEF TypeOK
    <3> QED BY <1>5, <3>1, <3>2
        DEF ThreadStep, StartThread, TryNext, End, EndInterrupted, Fail, Send
  <2>5. \A m \in requests' : m \in requests \/ m.call = c
    BY <1>1, <2>4, GiveUpType
  <2> QED BY <1>2, <1>3, <2>1, <2>3, <2>5, CallKept
<1> QED BY <1>4, <1>5

\* asyncCall leaves a promise for a call that was not made before.
LEMMA CallMade ==
  ASSUME CallInv, NEW c \in Call, AsyncCall(c)
  PROVE  PromiseInv' /\ AnswerInv'
<1> USE DEF raftVars
<1>1. /\ place' = [place EXCEPT ![c] = "promised"] /\ place \in [Call -> Place]
      /\ place[c] = "none"
  BY DEF AsyncCall, Move, CallInv, TypeOK
<1>2. \A d \in Call : place[d] # "none" => place'[d] # "none"
  BY <1>1
<1>3. /\ \A m \in requests : m.call \in Call
      /\ \A d \in logged : d \in Call
      /\ \A s \in Server : \A k \in 1..Len(handed[s]) : handed[s][k] \in Call
      /\ \A d \in Call : d[1] \in Server /\ d = <<d[1], d[2]>>
  BY CallsNamed DEF CallInv
<1>4. /\ handed' = handed /\ requests' = requests /\ applied' = applied
      /\ logged' = logged /\ answer' = answer
  BY DEF AsyncCall
<1>5. prms \in [Server -> SUBSET Nat] /\ c[1] \in Server
  BY <1>3 DEF CallInv, TypeOK
<1>6. prms' = [prms EXCEPT ![c[1]] = prms[c[1]] \cup {c[2]}]
  BY DEF AsyncCall
<1>7. /\ c[2] \in prms'[c[1]]
      /\ \A d \in Call : d # c => (d[2] \in prms'[d[1]] <=> d[2] \in prms[d[1]])
  BY <1>3, <1>5, <1>6
<1>8. ASSUME NEW d \in Call, place'[d] # "none"
      PROVE  d[2] \in prms'[d[1]] \/ Executed(d)
  <2>1. CASE d = c BY <1>7, <2>1
  <2>2. CASE d # c
    <3>1. place[d] # "none" BY <1>1, <1>8, <2>2
    <3> QED BY <1>7, <2>2, <3>1 DEF CallInv, PromiseInv
  <2> QED BY <2>1, <2>2
<1>9. PromiseInv'
  <2>1. \A d \in Call : Executed(d)' <=> Executed(d) BY <1>4 DEF Executed
  <2> HIDE DEF Executed
  <2> QED BY <1>2, <1>3, <1>4, <1>8, <2>1 DEF CallInv, PromiseInv
<1>10. AnswerInv'
  <2>1. ASSUME NEW d \in Call
        PROVE  IF place'[d] = "none" THEN answer[d] = 0
               ELSE answer[d] = 0 <=> d[2] \in prms'[d[1]]
    <3>1. CASE d = c
      BY <1>1, <1>7, <3>1 DEF CallInv, AnswerInv
    <3>2. CASE d # c
      BY <1>1, <1>7, <3>2 DEF CallInv, AnswerInv
    <3> QED BY <3>1, <3>2
  <2> QED BY <1>4, <2>1 DEF AnswerInv
<1> QED BY <1>9, <1>10

\* What Raft accepts and hands over was made.
LEMMA CallRaft ==
  ASSUME CallInv,
         \/ \E m \in requests : Serve(m)
         \/ \E s \in Server, c \in Call : Hand(s, c)
  PROVE  /\ PromiseInv' /\ AnswerInv'
         /\ \A d \in Call : place'[d] = "none" <=> place[d] = "none"
<1> USE DEF callVars
<1>1. /\ \A m \in requests : m.call \in Call /\ place[m.call] # "none"
      /\ \A d \in logged : d \in Call /\ place[d] # "none"
      /\ place \in [Call -> Place]
  BY CallsNamed DEF CallInv, PromiseInv, TypeOK
<1>2. ASSUME NEW m \in requests, Serve(m)
      PROVE  /\ PromiseInv' /\ AnswerInv'
             /\ \A d \in Call : place'[d] = "none" <=> place[d] = "none"
  <2>1. \/ place' = place
        \/ \E p \in {"accepted", "refused"} : place' = [place EXCEPT ![m.call] = p]
    BY <1>2 DEF Serve, Accept, Refuse, Reply
  <2>2. \A d \in Call : place'[d] = "none" <=> place[d] = "none"
    BY <1>1, <2>1
  <2>3. /\ requests' \subseteq requests /\ UNCHANGED <<handed, applyVars>>
        /\ \A d \in logged' : d \in logged \/ d = m.call
    BY <1>2 DEF Serve, Accept, Refuse, Reply, raftVars
  <2> QED BY <1>1, <2>2, <2>3, CallKept
<1>3. ASSUME NEW s \in Server, NEW c \in Call, Hand(s, c)
      PROVE  /\ PromiseInv' /\ AnswerInv'
             /\ \A d \in Call : place'[d] = "none" <=> place[d] = "none"
  <2>1. /\ handed' = [handed EXCEPT ![s] = Append(handed[s], c)] /\ place[c] # "none"
        /\ UNCHANGED <<place, requests, logged, prms, applied, answer>>
    BY <1>1, <1>3 DEF Hand, applyVars
  <2>2. /\ handed \in [Server -> Seq(Call)] /\ applied \in [Server -> Nat]
        /\ \A t \in Server : applied[t] <= Len(handed[t]) /\ handed[t] \in Seq(Call)
    BY DEF CallInv, TypeOK
  <2>3. /\ Len(handed'[s]) = Len(handed[s]) + 1
        /\ \A t \in Server : Len(handed[t]) \in Nat
        /\ \A t \in Server : \A k \in 1..Len(handed[t]) : handed'[t][k] = handed[t][k]
        /\ handed'[s][Len(handed[s]) + 1] = c
        /\ \A t \in Server : t # s => handed'[t] = handed[t]
    BY <2>1, <2>2, HandedMore
  <2>4. ASSUME NEW t \in Server, NEW k \in 1..Len(handed'[t])
        PROVE  place[handed'[t][k]] # "none"
    <3>1. CASE k \in 1..Len(handed[t])
      BY <2>3, <3>1 DEF CallInv, PromiseInv
    <3>2. CASE k \notin 1..Len(handed[t])
      <4>1. t = s /\ k = Len(handed[s]) + 1 BY <2>3, <3>2
      <4> QED BY <2>1, <2>3, <4>1
    <3> QED BY <3>1, <3>2
  <2>5. \A d \in Call : Executed(d) => Executed(d)'
    <3> SUFFICES ASSUME NEW d \in Call, Executed(d) PROVE Executed(d)'
      OBVIOUS
    <3>1. PICK k \in 1..applied[d[1]] : handed[d[1]][k] = d BY DEF Executed
    <3>2. d[1] \in Server BY CallsNamed DEF CallInv
    <3>3. k \in 1..Len(handed[d[1]]) BY <2>2, <2>3, <3>2
    <3>4. handed'[d[1]][k] = d /\ applied' = applied BY <2>1, <2>3, <3>1, <3>2, <3>3
    <3> QED BY <3>4 DEF Executed
  <2>6. PromiseInv'
    BY <1>1, <2>1, <2>4, <2>5 DEF CallInv, PromiseInv
  <2>7. AnswerInv' BY <2>1 DEF CallInv, AnswerInv
  <2> QED BY <2>1, <2>6, <2>7
<1> QED BY <1>2, <1>3

\* What apply does with what it is handed: another server's call, one of its own
\* that has its promise, and one that has not.
LEMMA ApplyCases ==
  ASSUME CallInv, NEW s \in Server, Apply(s), NEW c, c = handed[s][applied[s] + 1]
  PROVE  /\ c \in Call /\ place[c] # "none"
         /\ \/ c[1] # s /\ UNCHANGED <<prms, answer, stage>>
            \/ /\ c[1] = s /\ c[2] \in prms[s]
               /\ prms' = [prms EXCEPT ![s] = prms[s] \ {c[2]}]
               /\ answer' = [answer EXCEPT ![c] = applied[s] + 1]
               /\ stage' = stage
            \/ /\ c[1] = s /\ c[2] \notin prms[s] /\ UNCHANGED <<prms, answer>>
               /\ stage' = [stage EXCEPT ![s] = "crashed"]
<1>1. c \in Call BY AppliesEntry DEF CallInv
<1>2. place[c] # "none" BY AppliesEntry DEF CallInv, PromiseInv
<1>3. c[1] = s => <<s, c[2]>> = c BY <1>1 DEF Call
<1> QED BY <1>1, <1>2, <1>3 DEF Apply, Own, Erased

\* apply keeps the promise of what it executes, and no other.
LEMMA CallApplied ==
  ASSUME CallInv, NEW s \in Server, Apply(s)
  PROVE  PromiseInv' /\ AnswerInv'
<1> USE DEF callVars, raftVars
<1> DEFINE c == handed[s][applied[s] + 1]
<1>1. /\ c \in Call /\ place[c] # "none" /\ applied[s] \in Nat
      /\ \/ UNCHANGED <<prms, answer>>
         \/ /\ c[1] = s /\ c[2] \in prms[s]
            /\ prms' = [prms EXCEPT ![s] = prms[s] \ {c[2]}]
            /\ answer' = [answer EXCEPT ![c] = applied[s] + 1]
  BY ApplyCases, AppliesEntry DEF CallInv
<1>2. /\ handed' = handed /\ place' = place /\ requests' = requests /\ logged' = logged
      /\ applied' = [applied EXCEPT ![s] = applied[s] + 1]
  BY DEF Apply
<1>3. /\ applied \in [Server -> Nat] /\ prms \in [Server -> SUBSET Nat]
      /\ answer \in [Call -> Nat] /\ \A d \in Call : d[1] \in Server /\ d = <<d[1], d[2]>>
  BY CallsNamed DEF CallInv, TypeOK
<1>4. \A d \in Call : Executed(d) => Executed(d)'
  <2>1. \A t \in Server : \A k \in 1..applied[t] : k \in 1..applied'[t]
    BY <1>2, <1>3
  <2> QED BY <1>2, <1>3, <2>1 DEF Executed
<1>5. ASSUME NEW d \in Call, d = c, d[1] = s PROVE Executed(d)'
  <2>1. applied[s] + 1 \in 1..applied'[s] BY <1>2, <1>3
  <2>2. handed'[s][applied[s] + 1] = d BY <1>2, <1>5
  <2> QED BY <1>5, <2>1, <2>2 DEF Executed
<1> HIDE DEF c
<1>6. \A d \in Call : d # c => /\ (d[2] \in prms'[d[1]] <=> d[2] \in prms[d[1]])
                               /\ answer'[d] = answer[d]
  BY <1>1, <1>3
<1>7. PromiseInv'
  <2>1. ASSUME NEW d \in Call, place[d] # "none"
        PROVE  d[2] \in prms'[d[1]] \/ Executed(d)'
    <3>1. d[2] \in prms[d[1]] \/ Executed(d) BY <2>1 DEF CallInv, PromiseInv
    <3>2. CASE d # c BY <1>4, <1>6, <3>1, <3>2
    <3>3. CASE d = c /\ d[1] = s BY <1>5, <3>3
    <3>4. CASE d = c /\ d[1] # s BY <1>1, <1>4, <3>1, <3>4
    <3> QED BY <3>2, <3>3, <3>4
  <2> QED BY <1>2, <2>1 DEF CallInv, PromiseInv
<1>8. AnswerInv'
  <2>1. ASSUME NEW d \in Call
        PROVE  IF place[d] = "none" THEN answer'[d] = 0
               ELSE answer'[d] = 0 <=> d[2] \in prms'[d[1]]
    <3>1. CASE d # c BY <1>6, <3>1 DEF CallInv, AnswerInv
    <3>2. CASE d = c /\ UNCHANGED <<prms, answer>>
      BY <3>2 DEF CallInv, AnswerInv
    <3>3. CASE d = c /\ ~UNCHANGED <<prms, answer>>
      <4>1. /\ c[1] = s /\ prms'[s] = prms[s] \ {c[2]} /\ answer'[c] = applied[s] + 1
        BY <1>1, <1>3, <3>3
      <4>2. c[2] \notin prms'[c[1]] /\ answer'[c] # 0 BY <1>1, <4>1
      <4> QED BY <1>1, <3>3, <4>2
    <3> QED BY <3>1, <3>2, <3>3
  <2> QED BY <1>2, <2>1 DEF AnswerInv
<1> QED BY <1>7, <1>8

LEMMA CallInit == Init => CallInv
<1> SUFFICES ASSUME Init PROVE CallInv OBVIOUS
<1>1. Len(<<>>) = 0 OBVIOUS
<1>2. \A s \in Server : \A k \in 1..Len(handed[s]) : FALSE BY <1>1 DEF Init
<1>3. PromiseInv
  BY <1>2 DEF Init, PromiseInv
<1>4. AnswerInv BY DEF Init, AnswerInv
<1> QED BY <1>3, <1>4, TypeInit DEF CallInv

\* A step of Shutdown, or none.
LEMMA CallOther ==
  ASSUME CallInv,
         \/ \E s \in Server :
              Shutdown(s) \/ ClearWithInterruption(s) \/ ShutdownReturn(s)
         \/ UNCHANGED vars
  PROVE  PromiseInv' /\ AnswerInv' /\ place' = place
<1> USE DEF callVars, raftVars
<1>1. /\ UNCHANGED <<place, requests, logged, handed, applyVars>>
  BY DEF Shutdown, ClearWithInterruption, ShutdownReturn, vars
<1>2. /\ \A m \in requests : m.call \in Call /\ place[m.call] # "none"
      /\ \A d \in logged : d \in Call /\ place[d] # "none"
  BY CallsNamed DEF CallInv, PromiseInv
<1> QED BY <1>1, <1>2, CallKept

LEMMA CallStep == CallInv /\ [Next]_vars => CallInv'
<1> SUFFICES ASSUME CallInv, [Next]_vars PROVE CallInv' OBVIOUS
<1>1. TypeOK' BY TypeStep DEF CallInv
<1>2. PromiseInv' /\ AnswerInv'
  BY CallMade, CallThread, CallRaft, CallApplied, CallOther DEF Next, ServerStep
<1> QED BY <1>1, <1>2 DEF CallInv

\* The assertion of Interface::apply, for any number of servers and calls, whatever
\* is retried, late, lost or given up: an entry of a server's own that it is handed
\* for the first time has its promise.
THEOREM EveryPromiseFound == Spec => []PromiseFound
<1>1. CallInv => PromiseFound
  <2> SUFFICES ASSUME CallInv, NEW s \in Server,
                      NEW k \in (applied[s] + 1)..Len(handed[s]), handed[s][k][1] = s
               PROVE  \/ handed[s][k][2] \in prms[s]
                      \/ \E n \in 1..(k - 1) : handed[s][n] = handed[s][k]
    BY DEF PromiseFound
  <2>1. handed[s] \in Seq(Call) /\ applied[s] \in Nat /\ applied[s] <= Len(handed[s])
    BY DEF CallInv, TypeOK
  <2>2. Len(handed[s]) \in Nat BY <2>1, LenProperties
  <2>3. k \in 1..Len(handed[s]) /\ \A n \in 1..applied[s] : n \in 1..(k - 1)
    BY <2>1, <2>2
  <2>4. handed[s][k] \in Call /\ place[handed[s][k]] # "none"
    BY <2>3, CallsNamed DEF CallInv, PromiseInv
  <2>5. handed[s][k][2] \in prms[s] \/ Executed(handed[s][k])
    BY <2>4 DEF CallInv, PromiseInv
  <2> QED BY <2>3, <2>5 DEF Executed
<1> QED BY <1>1, CallInit, CallStep, PTL DEF Spec

-----------------------------------------------------------------------------
\* Shutdown: a live request has a thread that waits for its reply, and once the
\* threads of a server are joined none is started.

QuietInv ==
  /\ \A m \in requests : m.live => place[m.call] = "calling" /\ m.to = target[m.call]
  /\ \A c \in Call : stage[c[1]] \in {"stopping", "clearing", "down"} =>
       place[c] # "promised"
  /\ \A c \in Call : stage[c[1]] = "down" =>
       place[c] \notin {"calling", "accepted", "refused"}

\* The steps of a call and its thread.
LEMMA QuietThread ==
  ASSUME TypeOK, QuietInv, NEW c \in Call, AsyncCall(c) \/ ThreadStep(c) \/ Fail(c)
  PROVE  QuietInv'
<1> USE DEF applyVars, raftVars, callVars
<1>1. /\ place \in [Call -> Place] /\ target \in [Call -> Server]
      /\ c[1] \in Server /\ stage \in [Server -> Stage]
      /\ \A m \in requests : m.call \in Call
  BY DEF TypeOK, Call, Request
<1>2. ASSUME NEW p \in Place, place' = [place EXCEPT ![c] = p], stage' = stage,
             p = "promised" => stage[c[1]] = "up",
             p \in {"calling", "accepted", "refused"} => stage[c[1]] # "down"
      PROVE  /\ \A d \in Call : stage'[d[1]] \in {"stopping", "clearing", "down"} =>
                  place'[d] # "promised"
             /\ \A d \in Call : stage'[d[1]] = "down" =>
                  place'[d] \notin {"calling", "accepted", "refused"}
  BY <1>1, <1>2 DEF QuietInv
<1>3. CASE AsyncCall(c)
  <2>1. /\ place' = [place EXCEPT ![c] = "promised"] /\ stage' = stage
        /\ place[c] = "none" /\ stage[c[1]] = "up"
        /\ requests' = requests /\ target' = target
    BY <1>3 DEF AsyncCall, Move, Up
  <2>2. "promised" \in Place BY DEF Place
  <2>3. \A m \in requests : m.live => place'[m.call] = "calling" /\ m.to = target[m.call]
    BY <1>1, <2>1 DEF QuietInv
  <2> QED BY <1>2, <2>1, <2>2, <2>3 DEF QuietInv
<1>4. ASSUME NEW to \in Server, Move(c, "calling"), Send(c, to), stage' = stage,
             place[c] \in {"promised", "refused"}
      PROVE  QuietInv'
  <2>1. /\ place' = [place EXCEPT ![c] = "calling"] /\ target' = [target EXCEPT ![c] = to]
        /\ requests' = requests \cup {[call |-> c, to |-> to, live |-> TRUE]}
    BY <1>4 DEF Move, Send
  <2>2. stage[c[1]] # "down" /\ "calling" \in Place
    BY <1>4 DEF QuietInv, Place
  <2>3. ASSUME NEW m \in requests', m.live
        PROVE  place'[m.call] = "calling" /\ m.to = target'[m.call]
    <3>1. CASE m.call = c
      <4>1. m \notin requests BY <1>4, <2>3, <3>1 DEF QuietInv
      <4>2. m = [call |-> c, to |-> to, live |-> TRUE] BY <2>1, <4>1
      <4> QED BY <1>1, <2>1, <4>2
    <3>2. CASE m.call # c
      <4>1. m \in requests BY <2>1, <3>2
      <4> QED BY <1>1, <2>1, <2>3, <3>2, <4>1 DEF QuietInv
    <3> QED BY <3>1, <3>2
  <2> QED BY <1>2, <1>4, <2>1, <2>2, <2>3 DEF QuietInv
<1>5. CASE StartThread(c)
  BY <1>4, <1>5, InterfaceBounds DEF StartThread, Server
<1>6. CASE TryNext(c)
  <2>1. NextServer(target[c]) \in Server BY <1>1, NextServerType
  <2> QED BY <1>4, <1>6, <2>1 DEF TryNext
<1>7. CASE End(c)
  <2>1. /\ place' = [place EXCEPT ![c] = "ended"] /\ stage' = stage
        /\ place[c] = "accepted" /\ requests' = requests /\ target' = target
    BY <1>7 DEF End, Move
  <2>2. "ended" \in Place BY DEF Place
  <2>3. \A m \in requests : m.live => place'[m.call] = "calling" /\ m.to = target[m.call]
    BY <1>1, <2>1 DEF QuietInv
  <2> QED BY <1>2, <2>1, <2>2, <2>3 DEF QuietInv
<1>8. CASE EndInterrupted(c) \/ Fail(c)
  <2>1. PICK p \in {"ended", "refused"} : place' = [place EXCEPT ![c] = p]
    BY <1>8 DEF EndInterrupted, Fail, Move
  <2>2. /\ place[c] = "calling" /\ GiveUp(c) /\ stage' = stage /\ target' = target
        /\ p \in Place
    BY <1>8 DEF EndInterrupted, Fail, Place
  <2>3. ASSUME NEW m \in requests', m.live
        PROVE  place'[m.call] = "calling" /\ m.to = target'[m.call]
    <3>1. m \in requests /\ ~(m.call = c /\ m.to = target[c])
      BY <1>1, <2>2, <2>3, GiveUpType
    <3>2. place[m.call] = "calling" /\ m.to = target[m.call]
      BY <2>3, <3>1 DEF QuietInv
    <3> QED BY <1>1, <2>1, <2>2, <3>1, <3>2
  <2>4. stage[c[1]] # "down" BY <2>2 DEF QuietInv
  <2> QED BY <1>2, <2>1, <2>2, <2>3, <2>4 DEF QuietInv
<1>9. CASE Terminate(c)
  BY <1>1, <1>9 DEF Terminate, QuietInv
<1> QED BY <1>3, <1>5, <1>6, <1>7, <1>8, <1>9 DEF ThreadStep

\* A reply is for a thread that waits.
LEMMA QuietServe ==
  ASSUME TypeOK, QuietInv, NEW m \in requests, Serve(m)
  PROVE  QuietInv'
<1> USE DEF applyVars
<1>1. /\ place \in [Call -> Place] /\ m.call \in Call /\ m.to \in Server
      /\ \A n \in requests : n \in Request
  BY DEF TypeOK, Request
<1>2. requests' = requests \ {m} /\ target' = target /\ stage' = stage
  BY DEF Serve, Accept, Refuse, Reply
<1>3. CASE place' = place
  BY <1>2, <1>3 DEF QuietInv
<1>4. ASSUME NEW p \in {"accepted", "refused"}, m.live,
             place' = [place EXCEPT ![m.call] = p]
      PROVE  QuietInv'
  <2>1. place[m.call] = "calling" /\ m.to = target[m.call]
    BY <1>4 DEF QuietInv
  <2>2. \A n \in requests : n.live /\ n.call = m.call => n = m
    BY <1>1, <1>4, <2>1 DEF QuietInv, Request
  <2>3. \A n \in requests' : n.live =>
          place'[n.call] = "calling" /\ n.to = target'[n.call]
    BY <1>1, <1>2, <1>4, <2>2 DEF QuietInv, Request
  <2>4. stage[m.call[1]] # "down" BY <1>1, <2>1 DEF QuietInv
  <2> QED BY <1>1, <1>2, <1>4, <2>3, <2>4 DEF QuietInv
<1> QED BY <1>3, <1>4 DEF Serve, Accept, Refuse, Reply

\* The steps of Shutdown and apply.
LEMMA QuietServer ==
  ASSUME TypeOK, QuietInv, NEW s \in Server, Shutdown(s) \/ ServerStep(s)
  PROVE  QuietInv'
<1> USE DEF applyVars, callVars, raftVars
<1>1. /\ stage \in [Server -> Stage] /\ \A c \in Call : c[1] \in Server
      /\ \A c : c \in Calls(s) <=> (c \in Call /\ c[1] = s)
  BY DEF TypeOK, Call, Calls
<1>2. requests' = requests /\ target' = target /\ place' = place
  BY DEF ServerStep, Apply, Shutdown, ClearWithInterruption, ShutdownReturn
<1>3. CASE Apply(s)
  <2>1. stage' = stage \/ stage' = [stage EXCEPT ![s] = "crashed"]
    BY <1>3 DEF Apply
  <2> QED BY <1>1, <1>2, <2>1 DEF QuietInv
<1>4. CASE Shutdown(s)
  <2>1. /\ stage' = [stage EXCEPT ![s] = "stopping"]
        /\ \A c \in Calls(s) : place[c] # "promised"
    BY <1>4 DEF Shutdown
  <2> QED BY <1>1, <1>2, <2>1 DEF QuietInv
<1>5. CASE ClearWithInterruption(s)
  <2>1. stage' = [stage EXCEPT ![s] = "clearing"] /\ stage[s] = "stopping"
    BY <1>5 DEF ClearWithInterruption
  <2> QED BY <1>1, <1>2, <2>1 DEF QuietInv
<1>6. CASE ShutdownReturn(s)
  <2>1. /\ stage' = [stage EXCEPT ![s] = "down"] /\ stage[s] = "clearing"
        /\ \A c \in Calls(s) : place[c] \notin {"calling", "accepted", "refused"}
    BY <1>6 DEF ShutdownReturn, Threads
  <2> QED BY <1>1, <1>2, <2>1 DEF QuietInv
<1> QED BY <1>3, <1>4, <1>5, <1>6 DEF ServerStep

LEMMA QuietStep ==
  ASSUME TypeOK, QuietInv, [Next]_vars
  PROVE  QuietInv'
<1> USE DEF applyVars, callVars, raftVars
<1>1. ASSUME NEW s \in Server, NEW c \in Call, Hand(s, c) PROVE QuietInv'
  BY <1>1 DEF Hand, QuietInv
<1>2. CASE UNCHANGED vars BY <1>2 DEF vars, QuietInv
<1> QED BY <1>1, <1>2, QuietThread, QuietServe, QuietServer DEF Next

\* Once Shutdown has returned no thread of the Interface is left that waits for a
\* reply, whatever calls were retried, refused or interrupted before.
THEOREM NoCallAfterShutdown == Spec => []ShutdownIsQuiet
<1>1. Init => QuietInv
  <2>1. ASSUME Init PROVE QuietInv
    <3>1. \A c \in Call : c[1] \in Server BY DEF Call
    <3> QED BY <2>1, <3>1 DEF Init, QuietInv
  <2> QED BY <2>1
<1>2. ASSUME TypeOK, QuietInv PROVE ShutdownIsQuiet
  <2>1. \A m \in requests : m.call \in Call BY <1>2 DEF TypeOK, Request
  <2> QED BY <1>2, <2>1 DEF QuietInv, ShutdownIsQuiet
<1> QED BY <1>1, <1>2, TypeInit, TypeStep, QuietStep, PTL DEF Spec

-----------------------------------------------------------------------------
\* The Interface implements CallService

Called == {c \in Call : place[c] # "none"}
Done == [s \in Server |-> SubSeq(handed[s], 1, applied[s])]
Dead == {s \in Server : stage[s] = "crashed"}

\* The head of a sequence is the same when an entry is appended ...
LEMMA HeadKept ==
  ASSUME NEW q \in Seq(Call), NEW c \in Call, NEW n \in Nat, n <= Len(q)
  PROVE  SubSeq(Append(q, c), 1, n) = SubSeq(q, 1, n)
<1> DEFINE r == Append(q, c)
<1>1. /\ r \in Seq(Call) /\ Len(r) = Len(q) + 1 /\ Len(q) \in Nat
      /\ \A k \in 1..Len(q) : r[k] = q[k]
  BY HandedMore
<1> HIDE DEF r
<1>2. /\ \A k \in 1..n : q[k] \in Call /\ r[k] \in Call /\ r[k] = q[k]
      /\ n \in 0..Len(q) /\ n \in 0..Len(r)
  BY <1>1, ElementOfSeq
<1>3. /\ SubSeq(q, 1, n) \in Seq(Call) /\ Len(SubSeq(q, 1, n)) = n
      /\ \A k \in 1..n : SubSeq(q, 1, n)[k] = q[k]
  BY <1>1, <1>2, SubSeqProperties
<1>4. /\ SubSeq(r, 1, n) \in Seq(Call) /\ Len(SubSeq(r, 1, n)) = n
      /\ \A k \in 1..n : SubSeq(r, 1, n)[k] = r[k]
  BY <1>1, <1>2, SubSeqProperties
<1>5. \A k \in 1..Len(SubSeq(r, 1, n)) : SubSeq(r, 1, n)[k] = SubSeq(q, 1, n)[k]
  BY <1>2, <1>3, <1>4
<1>6. SubSeq(r, 1, n) = SubSeq(q, 1, n) BY <1>3, <1>4, <1>5, SeqEqual
<1> QED BY <1>6 DEF r

\* ... and grows by the next entry.
LEMMA HeadMore ==
  ASSUME NEW q \in Seq(Call), NEW n \in Nat, n + 1 <= Len(q)
  PROVE  /\ SubSeq(q, 1, n + 1) = Append(SubSeq(q, 1, n), q[n + 1])
         /\ Len(SubSeq(q, 1, n + 1)) = n + 1
<1>1. /\ Len(q) \in Nat /\ n \in 0..Len(q) /\ n + 1 \in 0..Len(q) /\ n + 1 \in 1..Len(q)
      /\ q[n + 1] \in Call
  <2>1. Len(q) \in Nat BY LenProperties
  <2>2. n + 1 \in 1..Len(q) BY <2>1
  <2> QED BY <2>1, <2>2, ElementOfSeq
<1>2. \A k \in 1..(n + 1) : q[k] \in Call BY <1>1, ElementOfSeq
<1> DEFINE a == SubSeq(q, 1, n)
           b == SubSeq(q, 1, n + 1)
           e == q[n + 1]
<1>3. a \in Seq(Call) /\ Len(a) = n /\ \A k \in 1..n : a[k] = q[k]
  BY <1>1, <1>2, SubSeqProperties
<1>4. b \in Seq(Call) /\ Len(b) = n + 1 /\ \A k \in 1..(n + 1) : b[k] = q[k]
  BY <1>1, <1>2, SubSeqProperties
<1>5. e \in Call /\ b[n + 1] = e BY <1>1, <1>4
<1> HIDE DEF a, b, e
<1>6. /\ Append(a, e) \in Seq(Call) /\ Len(Append(a, e)) = n + 1
      /\ \A k \in 1..n : Append(a, e)[k] = a[k]
      /\ Append(a, e)[n + 1] = e
  BY <1>3, <1>5, HandedMore
<1>7. \A k \in 1..Len(b) : b[k] = Append(a, e)[k] BY <1>3, <1>4, <1>5, <1>6
<1>8. b = Append(a, e) BY <1>4, <1>6, <1>7, SeqEqual
<1> QED BY <1>4, <1>8 DEF a, b, e

\* A step that hands over and executes nothing.
LEMMA DoneKept ==
  ASSUME CallInv, [Next]_vars, ~(\E s \in Server : Apply(s))
  PROVE  Done' = Done /\ answer' = answer
<1> USE DEF applyVars, callVars, raftVars
<1>1. CASE \E s \in Server, c \in Call : Hand(s, c)
  <2>1. PICK s \in Server, c \in Call : Hand(s, c) BY <1>1
  <2>2. /\ handed' = [handed EXCEPT ![s] = Append(handed[s], c)]
        /\ applied' = applied /\ answer' = answer
    BY <2>1 DEF Hand
  <2>3. /\ handed \in [Server -> Seq(Call)] /\ applied \in [Server -> Nat]
        /\ handed[s] \in Seq(Call) /\ applied[s] \in Nat /\ applied[s] <= Len(handed[s])
    BY DEF CallInv, TypeOK
  <2>4. SubSeq(Append(handed[s], c), 1, applied[s]) = SubSeq(handed[s], 1, applied[s])
    BY <2>3, HeadKept
  <2>5. \A t \in Server :
          SubSeq(handed'[t], 1, applied'[t]) = SubSeq(handed[t], 1, applied[t])
    <3> SUFFICES ASSUME NEW t \in Server
                 PROVE  SubSeq(handed'[t], 1, applied'[t]) = SubSeq(handed[t], 1, applied[t])
      OBVIOUS
    <3>1. CASE t = s
      <4>1. handed'[t] = Append(handed[s], c) BY <2>2, <2>3, <3>1
      <4> QED BY <2>2, <2>4, <3>1, <4>1
    <3>2. CASE t # s
      <4>1. handed'[t] = handed[t] BY <2>2, <2>3, <3>2
      <4> QED BY <2>2, <4>1
    <3> QED BY <3>1, <3>2
  <2> QED BY <2>2, <2>5 DEF Done
<1>2. CASE ~(\E s \in Server, c \in Call : Hand(s, c))
  <2>1. handed' = handed /\ applied' = applied /\ answer' = answer
    BY <1>2 DEF Next, AsyncCall, ThreadStep, StartThread, TryNext, End, EndInterrupted,
                Terminate, Fail, Serve, Accept, Refuse, Shutdown, ServerStep,
                ClearWithInterruption, ShutdownReturn, vars
  <2> QED BY <2>1 DEF Done
<1> QED BY <1>1, <1>2

\* What apply is to those who call.
LEMMA ApplyStep ==
  ASSUME CallInv, NEW s \in Server, Apply(s)
  PROVE  \E c \in Call : Abstract!Execute(s, c) \/ Abstract!ExecuteAgain(s, c)
<1> USE DEF callVars
<1> PICK c \in Call : c = handed[s][applied[s] + 1]
  BY AppliesEntry DEF CallInv
<1>1. /\ c \in Call /\ place[c] # "none"
      /\ \/ c[1] # s /\ UNCHANGED <<prms, answer, stage>>
         \/ /\ c[1] = s /\ c[2] \in prms[s]
            /\ answer' = [answer EXCEPT ![c] = applied[s] + 1]
            /\ stage' = stage
         \/ /\ c[1] = s /\ c[2] \notin prms[s] /\ UNCHANGED <<prms, answer>>
            /\ stage' = [stage EXCEPT ![s] = "crashed"]
  BY ApplyCases
<1>2. /\ place' = place /\ handed' = handed /\ stage[s] # "crashed"
      /\ applied' = [applied EXCEPT ![s] = applied[s] + 1]
  BY DEF Apply, raftVars
<1>3. /\ handed[s] \in Seq(Call) /\ applied[s] \in Nat /\ applied[s] + 1 <= Len(handed[s])
      /\ applied \in [Server -> Nat] /\ stage \in [Server -> Stage]
  BY AppliesEntry DEF CallInv, TypeOK
<1>4. /\ SubSeq(handed[s], 1, applied[s] + 1) = Append(SubSeq(handed[s], 1, applied[s]), c)
      /\ Len(SubSeq(handed[s], 1, applied[s] + 1)) = applied[s] + 1
  BY <1>3, HeadMore
<1>5. /\ Done' = [Done EXCEPT ![s] = Append(Done[s], c)]
      /\ Len(Done'[s]) = applied[s] + 1
  <2>1. Done'[s] = Append(Done[s], c) /\ Len(Done'[s]) = applied[s] + 1
    BY <1>2, <1>3, <1>4 DEF Done
  <2>2. \A t \in Server : t # s => Done'[t] = Done[t]
    BY <1>2, <1>3 DEF Done
  <2>3. Done = [t \in Server |-> Done[t]] /\ Done' = [t \in Server |-> Done'[t]]
    BY DEF Done
  <2> HIDE DEF Done
  <2> QED BY <2>1, <2>2, <2>3
<1>6. c \in Called /\ Called' = Called /\ s \notin Dead
  BY <1>1, <1>2 DEF Called, Dead
<1>7. c[2] \in prms[c[1]] <=> answer[c] = 0
  BY <1>1 DEF CallInv, AnswerInv
<1>8. CASE stage' = stage
  <2>1. Dead' = Dead BY <1>8 DEF Dead
  <2>2. IF c[1] # s THEN UNCHANGED answer
        ELSE answer[c] = 0 /\ answer' = [answer EXCEPT ![c] = Len(Done'[s])]
    <3>1. CASE c[1] # s BY <1>1, <3>1
    <3>2. CASE c[1] = s /\ c[2] \in prms[s] BY <1>1, <1>5, <1>7, <3>2
    <3>3. CASE c[1] = s /\ c[2] \notin prms[s]
      <4>1. stage'[s] = "crashed" BY <1>1, <1>3, <3>3
      <4> QED BY <1>2, <1>8, <4>1
    <3> QED BY <3>1, <3>2, <3>3
  <2>3. Abstract!Execute(s, c)
    BY <1>5, <1>6, <2>1, <2>2 DEF Abstract!Execute, Called, Done, Dead
  <2> QED BY <2>3
<1>9. CASE stage' # stage
  <2>1. /\ c[1] = s /\ c[2] \notin prms[s] /\ answer' = answer
        /\ stage' = [stage EXCEPT ![s] = "crashed"]
    BY <1>1, <1>9
  <2>2. Dead' = Dead \cup {s} BY <1>3, <2>1 DEF Dead
  <2>3. answer[c] # 0 BY <1>7, <2>1
  <2>4. Abstract!ExecuteAgain(s, c)
    BY <1>5, <1>6, <2>1, <2>2, <2>3 DEF Abstract!ExecuteAgain, Called, Done, Dead
  <2> QED BY <2>4
<1> QED BY <1>8, <1>9

\* What the Interface's steps are to those who call.
LEMMA ServiceStep ==
  ASSUME CallInv, [Next]_vars
  PROVE  Abstract!Next \/ UNCHANGED <<Called, Done, answer, Dead>>
<1> USE DEF applyVars, callVars, raftVars
<1>1. place \in [Call -> Place] /\ stage \in [Server -> Stage]
  BY DEF CallInv, TypeOK
<1>2. ASSUME NEW c \in Call, AsyncCall(c) PROVE Abstract!Invoke(c)
  <2>1. /\ place' = [place EXCEPT ![c] = "promised"] /\ place[c] = "none"
        /\ stage[c[1]] = "up" /\ stage' = stage
    BY <1>2 DEF AsyncCall, Move, Up
  <2>2. Done' = Done /\ answer' = answer BY <1>2 DEF AsyncCall, Done
  <2>3. c \notin Called /\ Called' = Called \cup {c} BY <1>1, <2>1 DEF Called
  <2>4. c[1] \notin Dead /\ Dead' = Dead BY <2>1 DEF Dead
  <2> QED BY <2>2, <2>3, <2>4 DEF Abstract!Invoke, Called, Done, Dead
<1>3. ASSUME NEW c \in Call, Terminate(c) PROVE Abstract!End(c[1])
  <2>1. /\ stage[c[1]] = "clearing" /\ stage' = [stage EXCEPT ![c[1]] = "crashed"]
        /\ c[1] \in Server
    BY <1>3 DEF Terminate, Call
  <2>2. Called' = Called /\ Done' = Done /\ answer' = answer
    BY <1>3 DEF Terminate, Called, Done
  <2>3. c[1] \notin Dead /\ Dead' = Dead \cup {c[1]} BY <1>1, <2>1 DEF Dead
  <2> QED BY <2>2, <2>3 DEF Abstract!End, Called, Done, Dead
<1>4. CASE /\ ~(\E c \in Call : AsyncCall(c) \/ Terminate(c))
           /\ ~(\E s \in Server : Apply(s))
  <2>1. Done' = Done /\ answer' = answer BY <1>4, DoneKept
  <2>2. \A c \in Call : place'[c] = "none" <=> place[c] = "none"
    <3>1. CASE UNCHANGED place BY <3>1
    <3>2. CASE ~UNCHANGED place
      <4>1. \/ \E c \in Call : ThreadStep(c) \/ Fail(c)
            \/ \E m \in requests : Serve(m)
        BY <1>4, <3>2 DEF Next, Hand, Shutdown, ServerStep, ClearWithInterruption,
                          ShutdownReturn, vars
      <4> QED BY <4>1, CallThread, CallRaft
    <3> QED BY <3>1, <3>2
  <2>3. \A s \in Server : stage'[s] = "crashed" <=> stage[s] = "crashed"
    <3>1. \/ stage' = stage
          \/ \E s \in Server, p \in {"stopping", "clearing", "down"} :
               stage[s] # "crashed" /\ stage' = [stage EXCEPT ![s] = p]
      BY <1>4 DEF Next, ThreadStep, StartThread, TryNext, End, EndInterrupted, Fail,
                  Serve, Accept, Refuse, Hand, Shutdown, ServerStep, Up,
                  ClearWithInterruption, ShutdownReturn, vars
    <3> QED BY <1>1, <3>1
  <2> QED BY <2>1, <2>2, <2>3 DEF Called, Dead
<1>5. ASSUME NEW c \in Call PROVE c[1] \in Server
  BY DEF Call
<1> QED BY <1>2, <1>3, <1>4, <1>5, ApplyStep DEF Abstract!Next

\* For any number of servers and calls, and whatever Raft hands to whom, how often
\* and in what order: no server executes a call before it is made, and a call is
\* answered once at most, by the server it was made on, with the result of its first
\* execution there.  A second one is the last thing that server does.
THEOREM CallsCorrect == Spec => ImplementsCallService
<1>1. Init => Abstract!Init
  <2>1. ASSUME Init PROVE Called = {} /\ Done = [s \in Server |-> <<>>] /\ Dead = {}
    <3>1. \A s \in Server : handed[s] = <<>> /\ applied[s] = 0 BY <2>1 DEF Init
    <3>2. \A s \in Server : SubSeq(handed[s], 1, applied[s]) = <<>>
      BY <3>1, SubSeqEmpty
    <3> QED BY <2>1, <3>2 DEF Init, Called, Done, Dead
  <2> QED BY <2>1 DEF Init, Abstract!Init, Called, Done, Dead
<1>2. CallInv /\ [Next]_vars => [Abstract!Next]_(Abstract!vars)
  <2> SUFFICES ASSUME CallInv, [Next]_vars
               PROVE  Abstract!Next \/ UNCHANGED Abstract!vars
    OBVIOUS
  <2>1. UNCHANGED <<Called, Done, answer, Dead>> => UNCHANGED Abstract!vars
    BY DEF Called, Done, Dead, Abstract!vars
  <2> QED BY <2>1, ServiceStep
<1> QED BY <1>1, <1>2, CallInit, CallStep, PTL
        DEF Spec, ImplementsCallService, Abstract!Spec
=============================================================================
