----------------------------- MODULE EventQueue ------------------------------
(***************************************************************************)
(* EventQueue of src/raft/misc/EventQueue.cpp, thread by thread: any       *)
(* number of threads that call addEvent, the running thread that executes, *)
(* and the owner, the one thread that calls pause, resume, wait, stop and  *)
(* start.                                                                  *)
(*                                                                         *)
(* A wait on the condition variable is three steps: the predicate is found *)
(* false ("blocking", with the mutex m still held), m is given up          *)
(* ("waiting"), and m is to be taken again ("woken").  A notification      *)
(* reaches only threads that are waiting.  addEvent changes the queue with *)
(* m held; pause and resume change paused without it.  Interrupting a      *)
(* thread acts where it enters or leaves a wait, nowhere else.             *)
(***************************************************************************)
EXTENDS Naturals, Sequences

CONSTANTS MaxEvents,  \* events added
          MaxPauses,  \* calls of pause
          MaxStops,   \* calls of stop, the destructor's included
          MaxSpurious \* wake-ups without a notification

ASSUME QueueBounds ==
  /\ MaxEvents \in Nat /\ MaxPauses \in Nat
  /\ MaxStops \in Nat /\ MaxSpurious \in Nat

VARIABLES
  q,           \* the queue, as the idx of its nodes
  curIdx,      \* idx of the node added last
  paused,
  exec,        \* where the running thread is
  running,     \* the event that it runs: a sequence of at most one
  executed,    \* history: the events that ran
  interrupted, \* the running thread has been interrupted
  owner,       \* where the owner is
  call,        \* the call that the owner is in
  due,         \* history: curIdx when stop was last called
  pauses, stops, spurious

queueVars == <<q, curIdx, running, executed>>
ownerVars == <<call, due, pauses, stops>>
vars == <<queueVars, ownerVars, paused, exec, interrupted, owner, spurious>>

ExecPlace == {"idle", "blocking", "waiting", "woken", "running", "ran", "ended", "none"}

OwnerPlace == {"idle", "resuming", "checking", "blocking", "waiting", "woken",
               "interrupting", "joining"}

\* The variables have their types; an event runs exactly when the running
\* thread is there (execute).
TypeOK ==
  /\ q \in Seq(Nat) /\ curIdx \in Nat /\ paused \in BOOLEAN
  /\ exec \in ExecPlace /\ running \in Seq(Nat) /\ executed \in Seq(Nat)
  /\ interrupted \in BOOLEAN
  /\ owner \in OwnerPlace /\ call \in {"none", "resume", "wait", "stop"}
  /\ due \in Nat /\ pauses \in Nat /\ stops \in Nat /\ spurious \in Nat
  /\ (exec = "running") <=> (running # <<>>)

\* The constructor has started the running thread.
Init ==
  /\ q = <<>> /\ curIdx = 0 /\ paused = FALSE
  /\ exec = "idle" /\ running = <<>> /\ executed = <<>> /\ interrupted = FALSE
  /\ owner = "idle" /\ call = "none" /\ due = 0
  /\ pauses = 0 /\ stops = 0 /\ spurious = 0

\* m is held across steps only on the way into a wait.
Unlocked == exec # "blocking" /\ owner # "blocking"

\* cv.notify_all, for a thread at place p.
Notified(p) == IF p = "waiting" THEN "woken" ELSE p

-----------------------------------------------------------------------------
\* addEvent, of any thread

\* The bug of an event that is added without a notification.
AddEventSilently ==
  /\ Unlocked /\ curIdx < MaxEvents
  /\ curIdx' = curIdx + 1
  /\ q' = Append(q, curIdx + 1)
  /\ UNCHANGED <<ownerVars, running, executed, paused, exec, interrupted, owner, spurious>>

AddEvent ==
  /\ Unlocked /\ curIdx < MaxEvents
  /\ curIdx' = curIdx + 1
  /\ q' = Append(q, curIdx + 1)
  /\ exec' = Notified(exec)
  /\ owner' = Notified(owner)
  /\ UNCHANGED <<ownerVars, running, executed, paused, interrupted, spurious>>

-----------------------------------------------------------------------------
\* execute

\* A wait that is left by a thread which was interrupted throws.
Throws == exec = "woken" /\ interrupted

Ready == ~paused /\ q # <<>>

\* The bug of a node that is copied and stays in the queue.
NotPopped == q

Popped == Tail(q)

ExecuteTake ==
  /\ exec \in {"idle", "woken"} /\ Unlocked /\ ~Throws
  /\ Ready
  /\ running' = <<Head(q)>>
  /\ q' = Popped
  /\ exec' = "running"
  /\ UNCHANGED <<ownerVars, curIdx, executed, paused, interrupted, owner, spurious>>

ExecuteBlock ==
  /\ exec \in {"idle", "woken"} /\ Unlocked /\ ~Throws
  /\ ~Ready
  /\ exec' = "blocking"
  /\ UNCHANGED <<queueVars, ownerVars, paused, interrupted, owner, spurious>>

ExecuteWait ==
  /\ exec = "blocking" /\ ~interrupted
  /\ exec' = "waiting"
  /\ UNCHANGED <<queueVars, ownerVars, paused, interrupted, owner, spurious>>

\* thread_interrupted is caught, and execute returns.
ExecuteReturn ==
  /\ \/ exec = "blocking" /\ interrupted
     \/ Throws /\ Unlocked
  /\ exec' = "ended"
  /\ UNCHANGED <<queueVars, ownerVars, paused, interrupted, owner, spurious>>

\* node.event() returns.
ExecuteEvent ==
  /\ exec = "running"
  /\ executed' = Append(executed, Head(running))
  /\ running' = <<>>
  /\ exec' = "ran"
  /\ UNCHANGED <<ownerVars, q, curIdx, paused, interrupted, owner, spurious>>

\* The bug of a loop that does not tell the threads in wait.
ExecuteUntold ==
  /\ exec = "ran"
  /\ exec' = "idle"
  /\ UNCHANGED <<queueVars, ownerVars, paused, interrupted, owner, spurious>>

ExecuteNotify ==
  /\ exec = "ran"
  /\ exec' = "idle"
  /\ owner' = Notified(owner)
  /\ UNCHANGED <<queueVars, ownerVars, paused, interrupted, spurious>>

-----------------------------------------------------------------------------
\* The owner

Pause ==
  /\ owner = "idle" /\ pauses < MaxPauses
  /\ paused' = TRUE
  /\ pauses' = pauses + 1
  /\ UNCHANGED <<queueVars, call, due, stops, exec, interrupted, owner, spurious>>

\* resume stores paused, ...
CallResume ==
  /\ owner = "idle"
  /\ owner' = "resuming" /\ call' = "resume"
  /\ paused' = FALSE
  /\ UNCHANGED <<queueVars, due, pauses, stops, exec, interrupted, spurious>>

\* ... and so does stop, which begins with it; ...
CallStop ==
  /\ owner = "idle" /\ stops < MaxStops
  /\ owner' = "resuming" /\ call' = "stop"
  /\ paused' = FALSE
  /\ due' = curIdx /\ stops' = stops + 1
  /\ UNCHANGED <<queueVars, pauses, exec, interrupted, spurious>>

\* ... then it notifies.
ResumeNotify ==
  /\ owner = "resuming"
  /\ exec' = Notified(exec)
  /\ owner' = IF call = "stop" THEN "checking" ELSE "idle"
  /\ call' = IF call = "stop" THEN "stop" ELSE "none"
  /\ UNCHANGED <<queueVars, due, pauses, stops, paused, interrupted, spurious>>

CallWait ==
  /\ owner = "idle"
  /\ owner' = "checking" /\ call' = "wait"
  /\ UNCHANGED <<queueVars, due, pauses, stops, paused, exec, interrupted, spurious>>

\* The bug of a wait that does not wait for the last event.
NearlyDrained == Len(q) <= 1

Drained == q = <<>>

WaitBlock ==
  /\ owner \in {"checking", "woken"} /\ Unlocked /\ ~Drained
  /\ owner' = "blocking"
  /\ UNCHANGED <<queueVars, ownerVars, paused, exec, interrupted, spurious>>

WaitSleep ==
  /\ owner = "blocking"
  /\ owner' = "waiting"
  /\ UNCHANGED <<queueVars, ownerVars, paused, exec, interrupted, spurious>>

WaitReturn ==
  /\ owner \in {"checking", "woken"} /\ Unlocked /\ Drained
  /\ owner' = IF call = "stop" THEN "interrupting" ELSE "idle"
  /\ call' = IF call = "stop" THEN "stop" ELSE "none"
  /\ UNCHANGED <<queueVars, due, pauses, stops, paused, exec, interrupted, spurious>>

\* runningThread.interrupt() wakes the thread if it waits; it does nothing
\* once the thread has been joined.
Interrupt ==
  /\ owner = "interrupting"
  /\ owner' = "joining"
  /\ interrupted' = (exec # "none")
  /\ exec' = Notified(exec)
  /\ UNCHANGED <<queueVars, ownerVars, paused, spurious>>

\* The bug of a stop that lets its thread go instead of joining it.
Detach ==
  /\ owner = "joining"
  /\ owner' = "idle" /\ call' = "none"
  /\ exec' = "none" /\ interrupted' = FALSE
  /\ UNCHANGED <<queueVars, due, pauses, stops, paused, spurious>>

\* runningThread.join() returns, and so does stop.
Join ==
  /\ owner = "joining" /\ exec \in {"ended", "none"}
  /\ owner' = "idle" /\ call' = "none"
  /\ exec' = "none" /\ interrupted' = FALSE
  /\ UNCHANGED <<queueVars, due, pauses, stops, paused, spurious>>

\* start does nothing while there is a thread.
Start ==
  /\ owner = "idle" /\ exec = "none"
  /\ exec' = "idle"
  /\ UNCHANGED <<queueVars, ownerVars, paused, interrupted, owner, spurious>>

-----------------------------------------------------------------------------
\* A condition variable may wake a thread without being notified.
Spurious ==
  /\ spurious < MaxSpurious /\ spurious' = spurious + 1
  /\ \/ exec = "waiting" /\ exec' = "woken" /\ UNCHANGED owner
     \/ owner = "waiting" /\ owner' = "woken" /\ UNCHANGED exec
  /\ UNCHANGED <<queueVars, ownerVars, paused, interrupted>>

ExecuteStep ==
  ExecuteTake \/ ExecuteBlock \/ ExecuteWait \/ ExecuteReturn \/ ExecuteEvent \/ ExecuteNotify

\* The rest of a call that the owner has begun.
OwnerStep ==
  ResumeNotify \/ WaitBlock \/ WaitSleep \/ WaitReturn \/ Interrupt \/ Join

OwnerCall == Pause \/ CallResume \/ CallWait \/ CallStop \/ Start

Next == AddEvent \/ ExecuteStep \/ OwnerStep \/ OwnerCall \/ Spurious

Spec == Init /\ [][Next]_vars

\* Threads that can run do: the scheduler starves neither of the two.
FairSpec == Spec /\ WF_vars(ExecuteStep) /\ WF_vars(OwnerStep)

-----------------------------------------------------------------------------
\* Properties

Promise == INSTANCE SerialQueue WITH pending <- q, current <- running, done <- executed

\* Events run one at a time, each once, in the order in which addEvent
\* numbered them, through pauses, stops, restarts and spurious wake-ups.
ImplementsSerialQueue == Promise!Spec

\* stop is graceful: once it has returned, and until start, all that had been
\* added when it was called has run.
StoppedIsDrained ==
  exec = "none" /\ call # "stop" => due <= Len(executed)

\* No wake-up of the running thread is lost, in a queue that was never paused: it
\* does not wait while there is an event (cv.wait in execute).  A resume that
\* falls between ExecuteBlock and ExecuteWait does lose one.
AwakeForEvents ==
  exec = "waiting" /\ pauses = 0 => q = <<>>

\* A first call of stop returns, if the queue was never paused.
StopReturns ==
  (call = "stop" /\ stops = 1 /\ pauses = 0) ~> (call = "none")

\* An event that is added is run, unless the running thread is stopped, or the
\* queue is paused.
AddedIsExecuted ==
  \A n \in 1..MaxEvents :
    (curIdx >= n) ~> (Len(executed) >= n \/ exec \in {"ended", "none"} \/ pauses > 0)
=============================================================================
