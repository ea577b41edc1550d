------------------------------ MODULE Interface -------------------------------
(***************************************************************************)
(* Interface of src/src/Interface.cpp on every server of a cluster, with   *)
(* the RaftClient, the ThreadPool and the Apply it uses: callers number    *)
(* their calls and leave a promise; a thread per call tries one server     *)
(* after the other until one accepts; the apply thread of each server      *)
(* executes what Raft hands it and keeps the promises of its own calls;    *)
(* Shutdown stops Raft, and interrupts and joins the threads.              *)
(*                                                                         *)
(* Raft is here no more than what the Interface meets of it.  Any server,  *)
(* and at any time, may accept a call as a leader does or refuse it.  What *)
(* was accepted once may be handed to any server, in any order, again or   *)
(* never: the code does not exclude it (AppliedIsReplicated of Quintet),   *)
(* and what a property needs of Raft it says itself.                       *)
(*                                                                         *)
(* A call is the server it is made on and its PrmIdx; operation and        *)
(* arguments are its payload.  A result is the place of its execution in   *)
(* the log.  The races of callers and the apply thread on prms, which has  *)
(* no mutex, are resolved as if each access were atomic.                   *)
(***************************************************************************)
EXTENDS Naturals, Sequences, FiniteSets

CONSTANTS N,         \* the length of srvList
          MaxCalls,  \* calls made on each server
          Stoppable, \* servers on which Shutdown may be called
          MaxLate,   \* requests given up that may yet be served
          MaxHanded  \* entries that Raft hands to the servers, all together

ASSUME InterfaceBounds ==
  /\ N \in Nat \ {0} /\ MaxCalls \in Nat /\ MaxLate \in Nat /\ MaxHanded \in Nat
  /\ Stoppable \subseteq 1..N

Server == 1..N
Call == Server \X (0..(MaxCalls - 1))

VARIABLES
  curPrmIdx, prms,        \* of the Interface of each server
  place,                  \* where each call is: with its caller, or its thread
  target,                 \* the server its thread is trying
  interrupted,            \* its thread has been interrupted
  requests,               \* AddLog calls that may still be served
  stage,                  \* how far each server is with Shutdown
  handed,                 \* what Raft has handed to the Apply of each server
  applied,                \* how much of it that has executed
  answer,                 \* the results set, 0 for none
  logged                  \* the calls some leader has taken into its log

callVars == <<place, target, interrupted, requests>>
applyVars == <<prms, applied, answer>>
raftVars == <<handed, logged>>
vars == <<curPrmIdx, callVars, stage, applyVars, raftVars>>

Place == {"none", "promised", "calling", "accepted", "refused", "ended"}

Stage == {"up", "stopping", "clearing", "down", "crashed"}

\* A request to a server; its thread still waits for the reply if it is live.
Request == [call : Call, to : Server, live : BOOLEAN]

\* The variables have their types.
TypeOK ==
  /\ curPrmIdx \in [Server -> Nat]
  /\ prms \in [Server -> SUBSET Nat]
  /\ place \in [Call -> Place] /\ target \in [Call -> Server]
  /\ interrupted \in [Call -> BOOLEAN]
  /\ requests \subseteq Request
  /\ stage \in [Server -> Stage]
  /\ handed \in [Server -> Seq(Call)]
  /\ applied \in [Server -> Nat]
  /\ \A s \in Server : applied[s] <= Len(handed[s])
  /\ answer \in [Call -> Nat]
  /\ logged \subseteq Call

\* After Start on every server.
Init ==
  /\ curPrmIdx = [s \in Server |-> 0] /\ prms = [s \in Server |-> {}]
  /\ place = [c \in Call |-> "none"] /\ target = [c \in Call |-> 1]
  /\ interrupted = [c \in Call |-> FALSE]
  /\ requests = {}
  /\ stage = [s \in Server |-> "up"]
  /\ handed = [s \in Server |-> <<>>] /\ applied = [s \in Server |-> 0]
  /\ answer = [c \in Call |-> 0]
  /\ logged = {}

Up(s) == stage[s] = "up"

Calls(s) == {s} \X (0..(MaxCalls - 1))

\* Calls of s that have a thread.
Threads(s) == {c \in Calls(s) : place[c] \in {"calling", "accepted", "refused"}}

Move(c, p) == place' = [place EXCEPT ![c] = p]

-----------------------------------------------------------------------------
\* asyncCall numbers the call and leaves a promise.
AsyncCall(c) ==
  /\ Up(c[1]) /\ place[c] = "none" /\ c[2] = curPrmIdx[c[1]]
  /\ Move(c, "promised")
  /\ curPrmIdx' = [curPrmIdx EXCEPT ![c[1]] = @ + 1]
  /\ prms' = [prms EXCEPT ![c[1]] = @ \cup {c[2]}]
  /\ UNCHANGED <<target, interrupted, requests, stage, applied, answer, raftVars>>

\* The request goes out; one of an earlier round may still be under way.
Send(c, to) ==
  /\ target' = [target EXCEPT ![c] = to]
  /\ requests' = requests \cup {[call |-> c, to |-> to, live |-> TRUE]}

\* addLog starts the thread, which begins at the head of srvList.
StartThread(c) ==
  /\ place[c] = "promised" /\ stage[c[1]] # "crashed"
  /\ Move(c, "calling")
  /\ Send(c, 1)
  /\ UNCHANGED <<curPrmIdx, interrupted, stage, applyVars, raftVars>>

-----------------------------------------------------------------------------
\* The thread of a call

\* The live request of c is given up: it is lost, or served late.
GiveUp(c) ==
  LET m == [call |-> c, to |-> target[c], live |-> TRUE]
      late == {r \in requests : ~r.live} \cup {[m EXCEPT !.live = FALSE]}
  IN \/ requests' = requests \ {m}
     \/ Cardinality(late) <= MaxLate /\ requests' = (requests \ {m}) \cup late

\* The deadline passes, or the call or its reply is lost: an RpcError.
Fail(c) ==
  /\ place[c] = "calling" /\ stage[c[1]] # "crashed"
  /\ Move(c, "refused")
  /\ GiveUp(c)
  /\ UNCHANGED <<curPrmIdx, target, interrupted, stage, applyVars, raftVars>>

\* The bug of a list that is not begun anew.
NextInList(t) == IF t = N THEN t ELSE t + 1

\* The bug of an iterator that is moved past the end.
NextAtAll(t) == t + 1

NextServer(t) == (t % N) + 1

\* The next server of srvList.
TryNext(c) ==
  /\ place[c] = "refused" /\ stage[c[1]] # "crashed"
  /\ Move(c, "calling")
  /\ Send(c, NextServer(target[c]))
  /\ UNCHANGED <<curPrmIdx, interrupted, stage, applyVars, raftVars>>

End(c) ==
  /\ place[c] = "accepted" /\ stage[c[1]] # "crashed"
  /\ Move(c, "ended")
  /\ UNCHANGED <<curPrmIdx, target, interrupted, requests, stage, applyVars, raftVars>>

\* The wait for the reply is an interruption point; the exception leaves the thread.
EndInterrupted(c) ==
  /\ place[c] = "calling" /\ interrupted[c] /\ stage[c[1]] # "crashed"
  /\ Move(c, "ended")
  /\ GiveUp(c)
  /\ UNCHANGED <<curPrmIdx, target, interrupted, stage, applyVars, raftVars>>

\* So is the join in the destructor of RaftClient, which no exception may leave:
\* the process is terminated.
Terminate(c) ==
  /\ place[c] \in {"accepted", "refused"} /\ interrupted[c]
  /\ stage[c[1]] = "clearing"
  /\ stage' = [stage EXCEPT ![c[1]] = "crashed"]
  /\ UNCHANGED <<curPrmIdx, callVars, applyVars, raftVars>>

-----------------------------------------------------------------------------
\* Raft

\* The reply to m arrives, if it is still waited for.
Reply(m, p) ==
  /\ requests' = requests \ {m}
  /\ place' = IF m.live THEN [place EXCEPT ![m.call] = p] ELSE place

\* A leader takes the call into its log.
Accept(m) ==
  /\ Up(m.to)
  /\ Reply(m, "accepted")
  /\ logged' = logged \cup {m.call}
  /\ UNCHANGED <<curPrmIdx, target, interrupted, stage, applyVars, handed>>

\* One that is no leader does not.
Refuse(m) ==
  /\ Up(m.to)
  /\ Reply(m, "refused")
  /\ UNCHANGED <<curPrmIdx, target, interrupted, stage, applyVars, raftVars>>

Serve(m) == Accept(m) \/ Refuse(m)

HandedOut == {h \in Server \X (1..MaxHanded) : h[2] <= Len(handed[h[1]])}

\* applyReadyEntries.  Stop need not be the end of it (StopIsFinal of Quintet).
Hand(s, c) ==
  /\ stage[s] # "crashed" /\ c \in logged /\ Cardinality(HandedOut) < MaxHanded
  /\ handed' = [handed EXCEPT ![s] = Append(@, c)]
  /\ UNCHANGED <<curPrmIdx, callVars, stage, applyVars, logged>>

-----------------------------------------------------------------------------
\* apply

\* The bug of an apply that answers the calls of all servers.
AnyPromise(s, c) == c[2] \in prms[s]

Own(s, c) == c[1] = s

\* The bug of a promise that is kept and not erased.
NotErased(s, c) == prms[s]

Erased(s, c) == prms[s] \ {c[2]}

\* The thread of Apply executes the next entry, and keeps the promise of its own
\* server.  Without one the assertion ends the process.
Apply(s) ==
  /\ stage[s] # "crashed" /\ applied[s] < Len(handed[s])
  /\ applied' = [applied EXCEPT ![s] = @ + 1]
  /\ LET c == handed[s][applied[s] + 1] IN
       IF ~Own(s, c) THEN UNCHANGED <<prms, answer, stage>>
       ELSE IF c[2] \notin prms[s]
         THEN stage' = [stage EXCEPT ![s] = "crashed"] /\ UNCHANGED <<prms, answer>>
         ELSE /\ prms' = [prms EXCEPT ![s] = Erased(s, c)]
              /\ answer' = [answer EXCEPT ![<<s, c[2]>>] = applied[s] + 1]
              /\ UNCHANGED stage
  /\ UNCHANGED <<curPrmIdx, callVars, raftVars>>

-----------------------------------------------------------------------------
\* Shutdown

\* Raft::Stop: no request is served from then on.  asyncCall has returned to
\* those who call.
Shutdown(s) ==
  /\ s \in Stoppable /\ Up(s) /\ \A c \in Calls(s) : place[c] # "promised"
  /\ stage' = [stage EXCEPT ![s] = "stopping"]
  /\ UNCHANGED <<curPrmIdx, callVars, applyVars, raftVars>>

\* The bug of a pool that joins its threads without an interruption.
ClearWithoutInterruption(s) ==
  /\ stage[s] = "stopping"
  /\ stage' = [stage EXCEPT ![s] = "clearing"]
  /\ UNCHANGED <<curPrmIdx, callVars, applyVars, raftVars>>

\* clearWithInterruption, ...
ClearWithInterruption(s) ==
  /\ stage[s] = "stopping"
  /\ stage' = [stage EXCEPT ![s] = "clearing"]
  /\ interrupted' = [c \in Call |-> interrupted[c] \/ c \in Threads(s)]
  /\ UNCHANGED <<curPrmIdx, place, target, requests, applyVars, raftVars>>

\* The bug of a pool that interrupts its threads and does not join them.
ReturnAtOnce(s) ==
  /\ stage[s] = "clearing"
  /\ stage' = [stage EXCEPT ![s] = "down"]
  /\ UNCHANGED <<curPrmIdx, callVars, applyVars, raftVars>>

\* ... and the return of its joins.
ShutdownReturn(s) ==
  /\ stage[s] = "clearing" /\ Threads(s) = {}
  /\ stage' = [stage EXCEPT ![s] = "down"]
  /\ UNCHANGED <<curPrmIdx, callVars, applyVars, raftVars>>

-----------------------------------------------------------------------------
ThreadStep(c) == StartThread(c) \/ TryNext(c) \/ End(c) \/ EndInterrupted(c) \/ Terminate(c)

ServerStep(s) == Apply(s) \/ ClearWithInterruption(s) \/ ShutdownReturn(s)

Next ==
  \/ \E c \in Call : AsyncCall(c) \/ ThreadStep(c) \/ Fail(c)
  \/ \E m \in requests : Serve(m)
  \/ \E s \in Server, c \in Call : Hand(s, c)
  \/ \E s \in Server : Shutdown(s) \/ ServerStep(s)

Spec == Init /\ [][Next]_vars

\* Threads that can run do; a call sent to a server over and over is served before
\* its deadline; an interrupted thread waits for a reply that is not yet there.
\* Raft need not accept or commit anything.
FairSpec ==
  /\ Spec
  /\ \A c \in Call :
       /\ WF_vars(ThreadStep(c)) /\ WF_vars(Fail(c))
       /\ SF_vars(EndInterrupted(c))
       /\ \A s \in Server : SF_vars(\E m \in requests :
                    m.live /\ m.call = c /\ m.to = s /\ Serve(m))
  /\ \A s \in Server : WF_vars(ServerStep(s))

-----------------------------------------------------------------------------
\* Properties

\* The assertion of Interface::apply: an entry of this server's own finds its
\* promise, which was left before the request could be sent and is kept only
\* once, whatever is repeated, lost or late, unless it was handed out before.
PromiseFound ==
  \A s \in Server : \A k \in (applied[s] + 1)..Len(handed[s]) :
    handed[s][k][1] = s =>
      \/ handed[s][k][2] \in prms[s]
      \/ \E n \in 1..(k - 1) : handed[s][n] = handed[s][k]

\* A server executes calls that were made, answers each of its own once, with
\* the result of its own execution, and ends rather than go on after a second.
Abstract == INSTANCE CallService WITH
  called <- {c \in Call : place[c] # "none"},
  executed <- [s \in Server |-> SubSeq(handed[s], 1, applied[s])],
  dead <- {s \in Server : stage[s] = "crashed"}

ImplementsCallService == Abstract!Spec

\* When Shutdown has returned the threads of the Interface have ended, and none
\* of its calls will be sent again.
ShutdownIsQuiet ==
  \A s \in Server : stage[s] = "down" =>
    \A m \in requests : m.call[1] = s => ~m.live

\* Shutdown returns, or terminates the process, though no server may be left
\* that would accept what its threads are sending.
ShutdownReturns ==
  \A s \in Server : (stage[s] = "stopping") ~> (stage[s] \in {"down", "crashed"})

\* What Raft owes: a call that was logged is handed to the server it was made on.
Delivered(c) ==
  (c \in logged) ~> (\E k \in 1..Len(handed[c[1]]) : handed[c[1]][k] = c)

\* The leader in the end, which refuses nothing any more.
StaysLeader(s) == <>[][~\E m \in requests : m.to = s /\ Refuse(m)]_vars

\* If some server leads in the end, whichever it is, no server is shut down or
\* ends, and Raft delivers a call, the call is answered, however many of its
\* requests are lost or refused.
CallsAnswered ==
  \A c \in Call :
    /\ [](\A s \in Server : Up(s))
    /\ \E s \in Server : StaysLeader(s)
    /\ Delivered(c)
    => (place[c] = "promised") ~> (answer[c] # 0)
=============================================================================
