----------------------------- MODULE RpcService ------------------------------
(***************************************************************************)
(* RpcService of src/raft/service/rpc/RpcService.cpp, thread by thread:    *)
(* gRPC's threads, each of which runs one handler at a time; the thread of *)
(* the event queue, which pauses and resumes the service around a          *)
(* transformation (Raft::Impl::transform); and the thread that calls stop. *)
(*                                                                         *)
(* The three bind functions wrap their function alike, so a handler is     *)
(* that wrapping, whichever RPC it serves.  As in EventQueue, a wait is to *)
(* find the predicate false with the mutex rpcing held ("blocking"), to    *)
(* give rpcing up ("waiting"), and, once notified ("woken"), to take it    *)
(* again.  paused and numRpcRemaining are changed without rpcing.          *)
(***************************************************************************)
EXTENDS Naturals, FiniteSets

CONSTANTS Handler,       \* gRPC's threads
          MaxCalls,      \* calls that clients make
          MaxTransforms, \* transformations
          MaxStops       \* calls of stop, the destructor's included

ASSUME RpcBounds ==
  /\ IsFiniteSet(Handler)
  /\ MaxCalls \in Nat /\ MaxTransforms \in Nat /\ MaxStops \in Nat

VARIABLES
  place,           \* where each handler is
  numRpcRemaining,
  paused,
  transformer,     \* where the event queue's thread is
  stopper,         \* where the thread that calls stop is
  accepting,       \* the server takes new calls
  calls, transforms, stops

counters == <<calls, transforms, stops>>
vars == <<place, numRpcRemaining, paused, transformer, stopper, accepting, counters>>

\* Handlers that preRpc has counted.
Counted == {"entering", "blocking", "waiting", "woken", "running", "left"}

Place == Counted \cup {"none", "called", "uncounted"}

StopPlace == {"idle", "resuming", "checking", "blocking", "waiting", "woken",
              "drained", "shutting"}

\* The variables have their types.
TypeOK ==
  /\ place \in [Handler -> Place]
  /\ numRpcRemaining \in Nat
  /\ paused \in BOOLEAN /\ accepting \in BOOLEAN
  /\ transformer \in {"out", "transforming", "resuming"}
  /\ stopper \in StopPlace
  /\ calls \in Nat /\ transforms \in Nat /\ stops \in Nat

\* After asyncRun.
Init ==
  /\ place = [h \in Handler |-> "none"]
  /\ numRpcRemaining = 0
  /\ paused = FALSE /\ accepting = TRUE
  /\ transformer = "out" /\ stopper = "idle"
  /\ calls = 0 /\ transforms = 0 /\ stops = 0

\* rpcing is held while a handler's function runs, on the way into a wait, and
\* by stop from the end of its wait to its return.
Unlocked ==
  /\ \A h \in Handler : place[h] \notin {"blocking", "running"}
  /\ stopper \notin {"blocking", "drained", "shutting"}

\* cv.notify_all, for a thread at p and for all handlers.
Notified(p) == IF p = "waiting" THEN "woken" ELSE p

AllNotified == [h \in Handler |-> Notified(place[h])]

Move(h, p) == place' = [place EXCEPT ![h] = p]

-----------------------------------------------------------------------------
\* A handler

\* gRPC hands a call to a thread.
Accept(h) ==
  /\ accepting /\ calls < MaxCalls
  /\ place[h] = "none" /\ Move(h, "called")
  /\ calls' = calls + 1
  /\ UNCHANGED <<numRpcRemaining, paused, transformer, stopper, accepting, transforms, stops>>

\* The bug of a handler that enters without being counted.
PreRpcUncounted(h) ==
  /\ place[h] = "called" /\ Move(h, "entering")
  /\ UNCHANGED <<numRpcRemaining, paused, transformer, stopper, accepting, counters>>

PreRpc(h) ==
  /\ place[h] = "called" /\ Move(h, "entering")
  /\ numRpcRemaining' = numRpcRemaining + 1
  /\ UNCHANGED <<paused, transformer, stopper, accepting, counters>>

Enter(h) ==
  /\ place[h] \in {"entering", "woken"} /\ Unlocked
  /\ ~paused /\ Move(h, "running")
  /\ UNCHANGED <<numRpcRemaining, paused, transformer, stopper, accepting, counters>>

Block(h) ==
  /\ place[h] \in {"entering", "woken"} /\ Unlocked
  /\ paused /\ Move(h, "blocking")
  /\ UNCHANGED <<numRpcRemaining, paused, transformer, stopper, accepting, counters>>

Wait(h) ==
  /\ place[h] = "blocking" /\ Move(h, "waiting")
  /\ UNCHANGED <<numRpcRemaining, paused, transformer, stopper, accepting, counters>>

\* f returns, and rpcing is released.
Serve(h) ==
  /\ place[h] = "running" /\ Move(h, "left")
  /\ UNCHANGED <<numRpcRemaining, paused, transformer, stopper, accepting, counters>>

\* The bug of a handler that is not taken off the count.
UncountNothing(h) ==
  /\ place[h] = "left" /\ Move(h, "uncounted")
  /\ UNCHANGED <<numRpcRemaining, paused, transformer, stopper, accepting, counters>>

\* The deleter of defer: first the count, ...
Uncount(h) ==
  /\ place[h] = "left" /\ Move(h, "uncounted")
  /\ numRpcRemaining' = numRpcRemaining - 1
  /\ UNCHANGED <<paused, transformer, stopper, accepting, counters>>

\* ... then the notification; the call returns.
Return(h) ==
  /\ place[h] = "uncounted"
  /\ place' = [AllNotified EXCEPT ![h] = "none"]
  /\ stopper' = Notified(stopper)
  /\ UNCHANGED <<numRpcRemaining, paused, transformer, accepting, counters>>

-----------------------------------------------------------------------------
\* Transformations

Pause ==
  /\ transformer = "out" /\ transforms < MaxTransforms
  /\ transformer' = "transforming"
  /\ paused' = TRUE
  /\ transforms' = transforms + 1
  /\ UNCHANGED <<place, numRpcRemaining, stopper, accepting, calls, stops>>

Resume ==
  /\ transformer = "transforming"
  /\ transformer' = "resuming"
  /\ paused' = FALSE
  /\ UNCHANGED <<place, numRpcRemaining, stopper, accepting, counters>>

\* The bug of a resume that tells nobody.
ResumeUntold ==
  /\ transformer = "resuming"
  /\ transformer' = "out"
  /\ UNCHANGED <<place, numRpcRemaining, paused, stopper, accepting, counters>>

ResumeNotify ==
  /\ transformer = "resuming"
  /\ transformer' = "out"
  /\ place' = AllNotified
  /\ stopper' = Notified(stopper)
  /\ UNCHANGED <<numRpcRemaining, paused, accepting, counters>>

-----------------------------------------------------------------------------
\* stop

\* stop resumes the service, ...
CallStop ==
  /\ stopper = "idle" /\ stops < MaxStops
  /\ stopper' = "resuming"
  /\ paused' = FALSE
  /\ stops' = stops + 1
  /\ UNCHANGED <<place, numRpcRemaining, transformer, accepting, calls, transforms>>

StopNotify ==
  /\ stopper = "resuming"
  /\ stopper' = "checking"
  /\ place' = AllNotified
  /\ UNCHANGED <<numRpcRemaining, paused, transformer, accepting, counters>>

\* The bug of a stop that only waits for the last handler but one.
AtMostOneRemains == numRpcRemaining <= 1

NoneRemains == numRpcRemaining = 0

\* ... waits until no handler remains, ...
StopBlock ==
  /\ stopper \in {"checking", "woken"} /\ Unlocked /\ ~NoneRemains
  /\ stopper' = "blocking"
  /\ UNCHANGED <<place, numRpcRemaining, paused, transformer, accepting, counters>>

StopWait ==
  /\ stopper = "blocking"
  /\ stopper' = "waiting"
  /\ UNCHANGED <<place, numRpcRemaining, paused, transformer, accepting, counters>>

StopDrained ==
  /\ stopper \in {"checking", "woken"} /\ Unlocked /\ NoneRemains
  /\ stopper' = "drained"
  /\ UNCHANGED <<place, numRpcRemaining, paused, transformer, accepting, counters>>

\* ... and shuts the server down, which takes no more calls ...
Shutdown ==
  /\ stopper = "drained"
  /\ stopper' = "shutting"
  /\ accepting' = FALSE
  /\ UNCHANGED <<place, numRpcRemaining, paused, transformer, counters>>

\* ... and lets Shutdown and Wait return when the calls it took have.
StopReturn ==
  /\ stopper = "shutting"
  /\ \A h \in Handler : place[h] = "none"
  /\ stopper' = "idle"
  /\ UNCHANGED <<place, numRpcRemaining, paused, transformer, accepting, counters>>

-----------------------------------------------------------------------------
\* What a handler does once it is called.
HandlerStep(h) ==
  PreRpc(h) \/ Enter(h) \/ Block(h) \/ Wait(h) \/ Serve(h) \/ Uncount(h) \/ Return(h)

TransformerStep == Resume \/ ResumeNotify

StopStep == StopNotify \/ StopBlock \/ StopWait \/ StopDrained \/ Shutdown \/ StopReturn

Next ==
  \/ \E h \in Handler : Accept(h) \/ HandlerStep(h)
  \/ Pause \/ TransformerStep
  \/ CallStop \/ StopStep

Spec == Init /\ [][Next]_vars

\* Threads that can run do, transformations end, and rpcing is not for ever
\* taken by others.
FairSpec ==
  /\ Spec
  /\ \A h \in Handler : SF_vars(HandlerStep(h))
  /\ WF_vars(TransformerStep) /\ SF_vars(StopStep)

-----------------------------------------------------------------------------
\* Properties

\* numRpcRemaining is the number of handlers between preRpc and its deleter,
\* however their steps interleave.
RemainingIsExact ==
  numRpcRemaining = Cardinality({h \in Handler : place[h] \in Counted})

\* When stop has waited and goes on to shut the server down, no handler runs its
\* function or has yet to wake up from a pause.
ShutdownFindsNobody ==
  stopper \in {"drained", "shutting"} =>
    \A h \in Handler : place[h] \in {"none", "called", "entering", "uncounted"}

\* A call that has reached a handler returns, but for two races: resume's
\* notification meets a handler on its way into the wait, and Shutdown, which
\* waits for it, one that had not been counted when stop looked.
CallsReturn ==
  [](/\ transformer = "resuming" \/ stopper = "resuming" =>
          \A h \in Handler : place[h] # "blocking"
     /\ stopper \in {"drained", "shutting"} =>
          \A h \in Handler : place[h] \in {"none", "uncounted"})
  => \A h \in Handler : (place[h] = "called") ~> (place[h] = "none")
=============================================================================
