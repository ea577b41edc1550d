-------------------------- MODULE HeartBeatController --------------------------
(***************************************************************************)
(* HeartBeatController of src/raft/service/HeartBeatController.cpp, thread *)
(* by thread: the beating threads it starts, and its two users in a        *)
(* server, which are the thread that transforms (leave stops the beating,  *)
(* init binds and starts it) and a handler of the follower (which restarts *)
(* it).  Handlers exclude each other; a transformation keeps handlers from *)
(* beginning but does not wait for one that has begun, so the two meet.    *)
(*                                                                         *)
(* Transformations are the events of the queue, in their order.  Callbacks *)
(* ask for a candidacy, votes for the leader, handlers of candidates and   *)
(* leaders and the append threads of a leader for the follower, Stop for   *)
(* the end; notify compares terms, which are not modelled here, so all but *)
(* the last may be refused.                                                *)
(*                                                                         *)
(* The mutex m is only ever tried.  The lock on it moves into the function *)
(* of the thread that start creates, and is released when that function is *)
(* destroyed: once the thread has ended and neither th nor a thread in     *)
(* join refers to it any longer.  So m is held exactly while an actor is   *)
(* launching or such a function exists, and no variable stands for it.     *)
(*                                                                         *)
(* Data races of the two users on th and func are resolved here as if each *)
(* access were atomic.                                                     *)
(***************************************************************************)
EXTENDS Naturals, Sequences

CONSTANTS MaxTransforms, \* transformations asked for
          MaxHandlers    \* handlers

ASSUME BeatBounds == MaxTransforms \in Nat /\ MaxHandlers \in Nat

Identity == {"Down", "Follower", "Candidate", "Leader"}
Actor == {"transformer", "handler"}

VARIABLES
  beats,      \* the beating threads, in the order in which they were started
  th,         \* the one th refers to; 0 if th is not joinable
  func,       \* whose callback is bound; "Down" before any is
  repeatCache,
  place,      \* where each actor is
  joined,     \* the thread that join of each actor refers to; 0 if none
  repeat,     \* the parameter of start of each actor
  identity, target, \* currentIdentity, and what is being transformed to
  holdsTerm,  \* the handler holds currentTermM
  events,     \* the transformations in the queue
  elected,    \* this candidacy has asked for its transformation to leader
  paused,     \* handlers wait before they begin
  stop,       \* how far Stop is
  transforms, handlers

beatVars == <<beats, th, func, repeatCache>>
counters == <<transforms, handlers>>
queueVars == <<events, elected, paused, stop>>
raftVars == <<identity, target, holdsTerm, queueVars, counters>>
vars == <<beatVars, place, joined, repeat, raftVars>>

Beat == [func : Identity, repeat : BOOLEAN, interrupted : BOOLEAN,
         at : {"sleeping", "calling", "cut", "done"}]

Place == {"out", "entered", "following", "asking", "stopping", "joining",
          "waiting", "leaving", "stopped", "starting", "launching"}

\* The variables have their types.
TypeOK ==
  /\ beats \in Seq(Beat)
  /\ th \in 0..Len(beats)
  /\ func \in Identity /\ repeatCache \in BOOLEAN
  /\ place \in [Actor -> Place]
  /\ joined \in [Actor -> 0..Len(beats)]
  /\ repeat \in [Actor -> BOOLEAN]
  /\ identity \in Identity /\ target \in Identity
  /\ holdsTerm \in BOOLEAN
  /\ events \in Seq(Identity) /\ elected \in BOOLEAN /\ paused \in BOOLEAN
  /\ stop \in {"no", "resumed", "called"}
  /\ transforms \in Nat /\ handlers \in Nat

\* AsyncRun has asked for the follower.
Init ==
  /\ beats = <<>> /\ th = 0
  /\ func = "Down" /\ repeatCache = FALSE
  /\ place = [a \in Actor |-> "out"]
  /\ joined = [a \in Actor |-> 0]
  /\ repeat = [a \in Actor |-> FALSE]
  /\ identity = "Down" /\ target = "Down"
  /\ holdsTerm = FALSE
  /\ events = <<"Follower">> /\ elected = FALSE /\ paused = FALSE /\ stop = "no"
  /\ transforms = 0 /\ handlers = 0

Alive(b) == beats[b].at \in {"sleeping", "calling"}

Referenced(b) == th = b \/ \E a \in Actor : joined[a] = b

\* The bug of a lock that stays in start and is released on its return.
LockedInStart == \E a \in Actor : place[a] = "launching"

\* The bug of a lock that the thread releases as it ends.
LockedWhileAlive ==
  LockedInStart \/ \E b \in 1..Len(beats) : Alive(b)

\* m is held.
Locked ==
  \/ \E a \in Actor : place[a] = "launching"
  \/ \E b \in 1..Len(beats) : Alive(b) \/ Referenced(b)

Move(a, p) == place' = [place EXCEPT ![a] = p]

-----------------------------------------------------------------------------
\* stop

\* The bug of a stop that only joins.
NoInterrupt(a) ==
  /\ place[a] = "stopping" /\ Move(a, "joining")
  /\ UNCHANGED <<beatVars, joined, repeat, raftVars>>

\* The flag stays up until the thread sleeps.
Interrupt(a) ==
  /\ place[a] = "stopping" /\ Move(a, "joining")
  /\ beats' = IF th = 0 THEN beats ELSE [beats EXCEPT ![th].interrupted = TRUE]
  /\ UNCHANGED <<th, func, repeatCache, joined, repeat, raftVars>>

\* join takes a reference of its own, to what th refers to by now, ...
Join(a) ==
  /\ place[a] = "joining"
  /\ joined' = [joined EXCEPT ![a] = th]
  /\ Move(a, IF th = 0 THEN "stopped" ELSE "waiting")
  /\ UNCHANGED <<beatVars, repeat, raftVars>>

\* The bug of a join that leaves th joinable.
JoinedKeepsTh(a) ==
  /\ place[a] = "waiting" /\ ~Alive(joined[a])
  /\ Move(a, "leaving")
  /\ UNCHANGED <<beatVars, joined, repeat, raftVars>>

\* ... clears th, once the thread has ended, if no other was started meanwhile, ...
Joined(a) ==
  /\ place[a] = "waiting" /\ ~Alive(joined[a])
  /\ Move(a, "leaving")
  /\ th' = IF th = joined[a] THEN 0 ELSE th
  /\ UNCHANGED <<beats, func, repeatCache, joined, repeat, raftVars>>

\* ... and gives the reference up.
Release(a) ==
  /\ place[a] = "leaving" /\ Move(a, "stopped")
  /\ joined' = [joined EXCEPT ![a] = 0]
  /\ UNCHANGED <<beatVars, repeat, raftVars>>

-----------------------------------------------------------------------------
\* start

\* What is left to do when start has returned: the transformer resumes the
\* service, the handler releases its locks.
Leave(a) ==
  /\ Move(a, "out")
  /\ holdsTerm' = IF a = "handler" THEN FALSE ELSE holdsTerm
  /\ paused' = IF a = "transformer" THEN FALSE ELSE paused
  /\ UNCHANGED <<identity, target, events, elected, stop, counters>>

\* try_lock succeeds.
TryLock(a) ==
  /\ place[a] = "starting" /\ ~Locked
  /\ Move(a, "launching")
  /\ repeatCache' = repeat[a]
  /\ UNCHANGED <<beats, th, func, joined, repeat, raftVars>>

\* It fails, and start returns false.
TryLockFails(a) ==
  /\ place[a] = "starting" /\ Locked
  /\ Leave(a)
  /\ UNCHANGED <<beatVars, joined, repeat>>

\* immediate and repeat are the same in every call.
Launched(a) ==
  [func |-> func, repeat |-> repeat[a], interrupted |-> FALSE,
   at |-> IF repeat[a] THEN "calling" ELSE "sleeping"]

\* The bug of a handle without a thread.
LaunchNothing(a) ==
  /\ place[a] = "launching"
  /\ th' = Len(beats) + 1
  /\ Leave(a)
  /\ UNCHANGED <<beats, func, repeatCache, joined, repeat>>

Launch(a) ==
  /\ place[a] = "launching"
  /\ beats' = Append(beats, Launched(a))
  /\ th' = Len(beats) + 1
  /\ Leave(a)
  /\ UNCHANGED <<func, repeatCache, joined, repeat>>

-----------------------------------------------------------------------------
\* notify, when it does not refuse.
Notify(to) ==
  /\ transforms + Len(events) < MaxTransforms
  /\ events' = Append(events, to)

-----------------------------------------------------------------------------
\* A beating thread

\* The period is over; an interruption would be noticed first.
Wake(b) ==
  /\ beats[b].at = "sleeping" /\ ~beats[b].interrupted
  /\ beats' = [beats EXCEPT ![b].at = "calling"]
  /\ UNCHANGED <<th, func, repeatCache, place, joined, repeat, raftVars>>

Cut(b) ==
  /\ beats[b].at = "sleeping" /\ beats[b].interrupted
  /\ beats' = [beats EXCEPT ![b].at = "cut"]
  /\ UNCHANGED <<th, func, repeatCache, place, joined, repeat, raftVars>>

\* f returns.  A timeout reads the current term and asks for a candidacy; a
\* heartbeat does neither.
Call(b) ==
  /\ beats[b].at = "calling"
  /\ \/ UNCHANGED events
     \/ beats[b].func # "Leader" /\ Notify("Candidate")
  /\ beats[b].func # "Leader" => ~holdsTerm
  /\ beats' = [beats EXCEPT ![b].at = IF beats[b].repeat THEN "sleeping" ELSE "done"]
  /\ UNCHANGED <<th, func, repeatCache, place, joined, repeat, identity, target,
                 holdsTerm, elected, paused, stop, counters>>

-----------------------------------------------------------------------------
\* Transformations

\* bind, unlike start, does not ask for m.
Bind(f) == func' = f

\* transform logs the current term, pauses the service, and has the old
\* identity, if any, leave.
Transform ==
  /\ place["transformer"] = "out" /\ events # <<>> /\ ~holdsTerm
  /\ target' = Head(events) /\ events' = Tail(events)
  /\ paused' = TRUE
  /\ Move("transformer", IF identity = "Down" THEN "stopped" ELSE "stopping")
  /\ transforms' = transforms + 1
  /\ UNCHANGED <<beatVars, joined, repeat, identity, holdsTerm, elected, stop, handlers>>

\* The old identity has left.
TransformDown ==
  /\ place["transformer"] = "stopped" /\ target = "Down"
  /\ identity' = "Down" /\ paused' = FALSE
  /\ Move("transformer", "out")
  /\ UNCHANGED <<beatVars, joined, repeat, target, holdsTerm, events, elected, stop, counters>>

\* init binds the new callback and starts the beating.  A candidate reads the
\* current term for its requests first.
TransformInit ==
  /\ place["transformer"] = "stopped" /\ target # "Down"
  /\ target = "Candidate" => ~holdsTerm
  /\ identity' = target /\ elected' = FALSE /\ Bind(target)
  /\ repeat' = [repeat EXCEPT !["transformer"] = (target = "Leader")]
  /\ Move("transformer", "starting")
  /\ UNCHANGED <<beats, th, repeatCache, joined, target, holdsTerm, events, paused, stop,
                 counters>>

\* A majority of the votes has come, once in a candidacy, whose threads are joined
\* when it is left.
Elect ==
  /\ identity = "Candidate" /\ ~elected
  /\ elected' = TRUE /\ Notify("Leader")
  /\ UNCHANGED <<beatVars, place, joined, repeat, identity, target, holdsTerm, paused, stop,
                 counters>>

\* An append thread, started by a heartbeat, is told of a greater term.
StepDown ==
  /\ identity = "Leader" /\ ~holdsTerm
  /\ \E b \in 1..Len(beats) : beats[b].func = "Leader"
  /\ Notify("Follower")
  /\ UNCHANGED <<beatVars, place, joined, repeat, identity, target, holdsTerm, elected, paused,
                 stop, counters>>

-----------------------------------------------------------------------------
\* Stop

\* The service is stopped first, which resumes it, ...
StopResume ==
  /\ stop = "no" /\ stop' = "resumed" /\ paused' = FALSE
  /\ UNCHANGED <<beatVars, place, joined, repeat, identity, target, holdsTerm, events,
                 elected, counters>>

\* ... and waits for its handlers; then the last event is added, but others may follow.
StopDown ==
  /\ stop = "resumed" /\ stop' = "called" /\ place["handler"] = "out"
  /\ Notify("Down")
  /\ UNCHANGED <<beatVars, place, joined, repeat, identity, target, holdsTerm, elected,
                 paused, counters>>

-----------------------------------------------------------------------------
\* A handler

\* Past the check that the service is not paused ...
Enter ==
  /\ place["handler"] = "out" /\ handlers < MaxHandlers
  /\ ~paused /\ stop # "called"
  /\ Move("handler", "entered")
  /\ handlers' = handlers + 1
  /\ UNCHANGED <<beatVars, joined, repeat, identity, target, holdsTerm, queueVars, transforms>>

\* ... it is dispatched to the identity there is by now, and waits for no
\* transformation from then on.
Dispatch ==
  /\ place["handler"] = "entered"
  /\ Move("handler", CASE identity = "Down" -> "out"
                       [] identity = "Follower" -> "following"
                       [] OTHER -> "asking")
  /\ UNCHANGED <<beatVars, joined, repeat, raftVars>>

\* A candidate or leader steps down, or does not.
Answer ==
  /\ place["handler"] = "asking" /\ Move("handler", "out")
  /\ Notify("Follower") \/ UNCHANGED events
  /\ UNCHANGED <<beatVars, joined, repeat, identity, target, holdsTerm, elected, paused, stop,
                 counters>>

\* A follower rejects the message.
Reject ==
  /\ place["handler"] = "following" /\ Move("handler", "out")
  /\ UNCHANGED <<beatVars, joined, repeat, raftVars>>

\* restart: of an AppendEntries, or of a vote given in the current term.
Restart ==
  /\ place["handler"] = "following" /\ Move("handler", "stopping")
  /\ UNCHANGED <<beatVars, joined, repeat, raftVars>>

\* restart of a vote given in a greater term, with currentTermM held.
RestartInNewTerm ==
  /\ place["handler"] = "following" /\ Move("handler", "stopping")
  /\ holdsTerm' = TRUE
  /\ UNCHANGED <<beatVars, joined, repeat, identity, target, queueVars, counters>>

\* The second half of restart, with the parameters of the last start.
StartAgain ==
  /\ place["handler"] = "stopped" /\ Move("handler", "starting")
  /\ repeat' = [repeat EXCEPT !["handler"] = repeatCache]
  /\ UNCHANGED <<beatVars, joined, raftVars>>

-----------------------------------------------------------------------------
ActorStep(a) ==
  Interrupt(a) \/ Join(a) \/ Joined(a) \/ Release(a) \/ TryLock(a) \/ TryLockFails(a) \/ Launch(a)

HandlerStep ==
  \/ ActorStep("handler")
  \/ Dispatch \/ Answer \/ Reject \/ Restart \/ RestartInNewTerm \/ StartAgain

TransformerStep == ActorStep("transformer") \/ TransformDown \/ TransformInit

BeatStep(b) == Wake(b) \/ Cut(b) \/ Call(b)

Next ==
  \/ Enter \/ HandlerStep
  \/ Transform \/ TransformerStep
  \/ Elect \/ StepDown \/ StopResume \/ StopDown
  \/ \E b \in 1..Len(beats) : BeatStep(b)

Spec == Init /\ [][Next]_vars

\* Threads that can run do, and periods end.
FairSpec ==
  /\ Spec
  /\ WF_vars(HandlerStep) /\ WF_vars(TransformerStep)
  /\ \A b \in 1..(MaxTransforms + MaxHandlers) : WF_vars(b <= Len(beats) /\ BeatStep(b))

-----------------------------------------------------------------------------
\* Properties

\* Two threads never beat at a time, though a restart may run beside the stop
\* and the start of a transformation.
OneBeat == \A b, c \in 1..Len(beats) : Alive(b) /\ Alive(c) => b = c

\* The assertion of start: th is not joinable when a thread is about to be
\* assigned to it, whatever another user has done since the last join.
NotJoinable == \A a \in Actor : place[a] = "launching" => th = 0

\* When its users have finished, a server that is up has a thread that beats or
\* that has expired, whichever of them found m locked: the last beat was not
\* cut short by a restart that then started none.
TimerLeft ==
  (\A a \in Actor : place[a] = "out") /\ identity # "Down" =>
    th # 0 /\ beats[th].at # "cut"

\* Unless a handler waits for a timeout with currentTermM held, or restarts beside
\* a transformation, stop returns: in particular that of a leader's heartbeat.
StopsReturn ==
  [](/\ ~holdsTerm
     /\ place["handler"] \in {"out", "entered", "following", "asking"}
          \/ place["transformer"] = "out") =>
    \A a \in Actor : (place[a] = "stopping") ~> (place[a] = "out")
=============================================================================
