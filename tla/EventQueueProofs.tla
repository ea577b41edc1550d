-------------------------- MODULE EventQueueProofs ---------------------------
(***************************************************************************)
(* For any number of events, pauses, stops and spurious wake-ups: the      *)
(* event queue implements SerialQueue, and stop is graceful.               *)
(***************************************************************************)
EXTENDS EventQueue, SequenceTheorems, TLAPS

\* Each event that was added is in one place.
Accounted ==
  /\ curIdx = Len(executed) + Len(running) + Len(q)
  /\ running # <<>> => Len(running) = 1

\* Adds 1 to the queue's length, takes one from it, moves one to the history.
LEMMA Lengths ==
  ASSUME NEW s \in Seq(Nat), NEW x \in Nat
  PROVE  /\ Append(s, x) \in Seq(Nat) /\ Len(Append(s, x)) = Len(s) + 1 /\ Len(s) \in Nat
         /\ s # <<>> => /\ Tail(s) \in Seq(Nat) /\ Head(s) \in Nat
                        /\ Len(Tail(s)) = Len(s) - 1 /\ Len(s) > 0
  OBVIOUS

\* A sequence of one.
LEMMA Single ==
  ASSUME NEW x \in Nat
  PROVE  <<x>> \in Seq(Nat) /\ Len(<<x>>) = 1 /\ <<x>> # <<>> /\ Head(<<x>>) = x
  OBVIOUS

\* The places of the two threads.
PlacesOK ==
  /\ exec \in ExecPlace /\ owner \in OwnerPlace
  /\ call \in {"none", "resume", "wait", "stop"}
  /\ interrupted \in BOOLEAN /\ paused \in BOOLEAN

\* The events.
EventsOK ==
  /\ q \in Seq(Nat) /\ running \in Seq(Nat) /\ executed \in Seq(Nat) /\ curIdx \in Nat
  /\ (exec = "running") <=> (running # <<>>)

\* The counters.
CountersOK == due \in Nat /\ pauses \in Nat /\ stops \in Nat /\ spurious \in Nat

\* The type invariant in three parts.
LEMMA TypeParts == TypeOK <=> PlacesOK /\ EventsOK /\ CountersOK
BY DEF TypeOK, PlacesOK, EventsOK, CountersOK

\* Notifying a thread keeps its place one of its places.
LEMMA NotifiedPlace ==
  /\ \A p \in ExecPlace : Notified(p) \in ExecPlace /\ (Notified(p) = "running" <=> p = "running")
  /\ \A p \in OwnerPlace : Notified(p) \in OwnerPlace
BY DEF Notified, ExecPlace, OwnerPlace

\* Every step keeps the threads in their places.
LEMMA PlacesStep == PlacesOK /\ [Next]_vars => PlacesOK'
<1> SUFFICES ASSUME PlacesOK, [Next]_vars PROVE PlacesOK'
  OBVIOUS
<1> USE DEF PlacesOK
<1>1. CASE AddEvent
  BY <1>1, NotifiedPlace DEF AddEvent, ownerVars
<1>2. CASE ExecuteStep
  BY <1>2, NotifiedPlace
  DEF ExecuteStep, ExecuteTake, ExecuteBlock, ExecuteWait, ExecuteReturn, ExecuteEvent,
      ExecuteNotify, ExecPlace, ownerVars
<1>3. CASE OwnerStep
  BY <1>3, NotifiedPlace
  DEF OwnerStep, ResumeNotify, WaitBlock, WaitSleep, WaitReturn, Interrupt, Join,
      ExecPlace, OwnerPlace, ownerVars
<1>4. CASE OwnerCall
  BY <1>4
  DEF OwnerCall, Pause, CallResume, CallWait, CallStop, Start, ExecPlace, OwnerPlace, ownerVars
<1>5. CASE Spurious
  BY <1>5 DEF Spurious, ExecPlace, OwnerPlace, ownerVars
<1>6. CASE UNCHANGED vars BY <1>6 DEF vars, ownerVars
<1> QED BY <1>1, <1>2, <1>3, <1>4, <1>5, <1>6 DEF Next

\* Every step keeps the counters numbers.
LEMMA CountersStep == CountersOK /\ EventsOK /\ [Next]_vars => CountersOK'
<1> SUFFICES ASSUME CountersOK, EventsOK, [Next]_vars PROVE CountersOK'
  OBVIOUS
<1>1. curIdx \in Nat BY DEF EventsOK
<1> USE <1>1 DEF CountersOK, ownerVars
<1>2. CASE AddEvent BY <1>2 DEF AddEvent
<1>3. CASE ExecuteStep
  BY <1>3 DEF ExecuteStep, ExecuteTake, ExecuteBlock, ExecuteWait, ExecuteReturn,
     ExecuteEvent, ExecuteNotify
<1>4. CASE OwnerStep
  BY <1>4 DEF OwnerStep, ResumeNotify, WaitBlock, WaitSleep, WaitReturn, Interrupt, Join
<1>5. CASE OwnerCall
  BY <1>5 DEF OwnerCall, Pause, CallResume, CallWait, CallStop, Start
<1>6. CASE Spurious BY <1>6 DEF Spurious
<1>7. CASE UNCHANGED vars BY <1>7 DEF vars
<1> QED BY <1>2, <1>3, <1>4, <1>5, <1>6, <1>7 DEF Next

\* The steps that move no event.
LEMMA QuietStep ==
  ASSUME TypeOK, [Next]_vars, ~AddEvent, ~ExecuteTake, ~ExecuteEvent
  PROVE  /\ UNCHANGED queueVars
         /\ (exec' = "running") <=> (exec = "running")
<1>1. exec \in ExecPlace /\ owner \in OwnerPlace BY DEF TypeOK
<1>2. UNCHANGED queueVars
  BY DEF Next, ExecuteStep, ExecuteBlock, ExecuteWait, ExecuteReturn, ExecuteNotify,
     OwnerStep, ResumeNotify, WaitBlock, WaitSleep, WaitReturn, Interrupt, Join,
     OwnerCall, Pause, CallResume, CallWait, CallStop, Start, Spurious, vars
<1>3. (exec' = "running") <=> (exec = "running")
  <2>1. CASE ExecuteStep
    BY <2>1 DEF ExecuteStep, ExecuteBlock, ExecuteWait, ExecuteReturn, ExecuteNotify, Throws
  <2>2. CASE OwnerStep
    BY <1>1, <2>2, NotifiedPlace
    DEF OwnerStep, ResumeNotify, WaitBlock, WaitSleep, WaitReturn, Interrupt, Join
  <2>3. CASE OwnerCall
    BY <2>3 DEF OwnerCall, Pause, CallResume, CallWait, CallStop, Start
  <2>4. CASE Spurious BY <2>4 DEF Spurious
  <2>5. CASE UNCHANGED vars BY <2>5 DEF vars
  <2> QED BY <2>1, <2>2, <2>3, <2>4, <2>5 DEF Next
<1> QED BY <1>2, <1>3

\* Every step keeps the types of the events, and accounts for each event.
LEMMA EventsStep ==
  TypeOK /\ Accounted /\ [Next]_vars => EventsOK' /\ Accounted'
<1> SUFFICES ASSUME TypeOK, Accounted, [Next]_vars PROVE EventsOK' /\ Accounted'
  OBVIOUS
<1>1. EventsOK /\ exec \in ExecPlace BY DEF TypeOK, EventsOK
<1> USE DEF EventsOK, Accounted
<1>2. CASE AddEvent
  <2>1. q' = Append(q, curIdx + 1) /\ curIdx' = curIdx + 1 /\ exec' = Notified(exec)
        /\ UNCHANGED <<running, executed>>
    BY <1>2 DEF AddEvent
  <2>2. curIdx + 1 \in Nat BY <1>1
  <2>3. q' \in Seq(Nat) /\ Len(q') = Len(q) + 1 BY <1>1, <2>1, <2>2, Lengths
  <2>4. Len(q) \in Nat /\ Len(running) \in Nat /\ Len(executed) \in Nat BY <1>1, Lengths
  <2> QED BY <1>1, <2>1, <2>2, <2>3, <2>4, NotifiedPlace
<1>3. CASE ExecuteTake
  <2>1. q' = Tail(q) /\ running' = <<Head(q)>> /\ exec' = "running" /\ q # <<>>
        /\ exec # "running" /\ UNCHANGED <<curIdx, executed>>
    BY <1>3 DEF ExecuteTake, Popped, Ready
  <2>2. running = <<>> BY <1>1, <2>1
  <2>3. Head(q) \in Nat /\ q' \in Seq(Nat) /\ Len(q') = Len(q) - 1 /\ Len(q) > 0
    BY <1>1, <2>1, Lengths
  <2>4. running' \in Seq(Nat) /\ Len(running') = 1 /\ running' # <<>>
    BY <2>1, <2>3, Single
  <2>5. Len(q) \in Nat /\ Len(executed) \in Nat /\ Len(running) = 0
    BY <1>1, <2>2, Lengths
  <2> QED BY <1>1, <2>1, <2>3, <2>4, <2>5
<1>4. CASE ExecuteEvent
  <2>1. executed' = Append(executed, Head(running)) /\ running' = <<>> /\ exec' = "ran"
        /\ exec = "running" /\ UNCHANGED <<q, curIdx>>
    BY <1>4 DEF ExecuteEvent
  <2>2. running # <<>> /\ Head(running) \in Nat /\ Len(running) = 1 BY <1>1, <2>1, Lengths
  <2>3. executed' \in Seq(Nat) /\ Len(executed') = Len(executed) + 1
    BY <1>1, <2>1, <2>2, Lengths
  <2>4. running' \in Seq(Nat) /\ Len(running') = 0 BY <2>1
  <2>5. Len(q) \in Nat /\ Len(executed) \in Nat BY <1>1, Lengths
  <2> QED BY <1>1, <2>1, <2>2, <2>3, <2>4, <2>5
<1>5. CASE ~AddEvent /\ ~ExecuteTake /\ ~ExecuteEvent
  BY <1>1, <1>5, QuietStep DEF queueVars
<1> QED BY <1>2, <1>3, <1>4, <1>5

\* The type invariant and the account of the events.
QueueInv == TypeOK /\ Accounted

\* QueueInv is inductive.
LEMMA QueueInductive ==
  /\ Init => QueueInv
  /\ QueueInv /\ [Next]_vars => QueueInv'
<1>1. ASSUME Init PROVE QueueInv
  <2>1. Len(<<>>) = 0 /\ <<>> \in Seq(Nat) OBVIOUS
  <2>2. PlacesOK BY <1>1 DEF Init, PlacesOK, ExecPlace, OwnerPlace
  <2>3. EventsOK BY <1>1, <2>1 DEF Init, EventsOK
  <2>4. CountersOK BY <1>1 DEF Init, CountersOK
  <2>5. Accounted BY <1>1, <2>1 DEF Init, Accounted
  <2> QED BY <2>2, <2>3, <2>4, <2>5, TypeParts DEF QueueInv
<1>2. ASSUME QueueInv, [Next]_vars PROVE QueueInv'
  <2>1. TypeOK /\ Accounted BY <1>2 DEF QueueInv
  <2>2. PlacesOK /\ EventsOK /\ CountersOK BY <2>1, TypeParts
  <2>3. PlacesOK' /\ EventsOK' /\ CountersOK' /\ Accounted'
    BY <1>2, <2>1, <2>2, PlacesStep, EventsStep, CountersStep
  <2>4. TypeOK' BY <2>3 DEF TypeOK, PlacesOK, EventsOK, CountersOK
  <2> QED BY <2>3, <2>4 DEF QueueInv
<1> QED BY <1>1, <1>2

(***************************************************************************)
(* The queue implements SerialQueue: addEvent adds, taking an event from   *)
(* the queue begins it, its return ends it, and nothing else happens to    *)
(* events.                                                                 *)
(***************************************************************************)
LEMMA SerialStep ==
  QueueInv /\ [Next]_vars => [Promise!Next]_(Promise!vars)
<1> SUFFICES ASSUME TypeOK, Accounted, [Next]_vars
             PROVE  Promise!Next \/ UNCHANGED <<q, running, executed>>
  BY DEF QueueInv, Promise!vars
<1>1. EventsOK BY TypeParts
<1>2. CASE AddEvent
  <2>1. curIdx + 1 = Len(executed) + Len(running) + Len(q) + 1 BY DEF Accounted
  <2>2. Promise!Add BY <1>2, <2>1 DEF AddEvent, Promise!Add
  <2> QED BY <2>2 DEF Promise!Next
<1>3. CASE ExecuteTake
  <2>1. running = <<>> BY <1>1, <1>3 DEF EventsOK, ExecuteTake
  <2>2. Promise!Begin BY <1>3, <2>1 DEF ExecuteTake, Popped, Ready, Promise!Begin
  <2> QED BY <2>2 DEF Promise!Next
<1>4. CASE ExecuteEvent
  <2>1. running # <<>> BY <1>1, <1>4 DEF EventsOK, ExecuteEvent
  <2>2. Promise!End BY <1>4, <2>1 DEF ExecuteEvent, Promise!End
  <2> QED BY <2>2 DEF Promise!Next
<1>5. CASE ~AddEvent /\ ~ExecuteTake /\ ~ExecuteEvent
  BY <1>5, QuietStep DEF queueVars
<1> QED BY <1>2, <1>3, <1>4, <1>5

(***************************************************************************)
(* stop is graceful: when its wait has found the queue empty, the events   *)
(* due have run or the last of them runs, and join waits for that one.     *)
(***************************************************************************)
Past == {"interrupting", "joining"}

\* StoppedIsDrained made inductive.
DrainInv ==
  /\ due <= curIdx
  /\ owner = "idle" => call # "stop"
  /\ owner \in Past => call = "stop" /\ due <= Len(executed) + Len(running)
  /\ interrupted => owner = "joining"
  /\ exec = "ended" => interrupted
  /\ StoppedIsDrained

\* DrainInv holds initially.
LEMMA DrainInit == Init => DrainInv
BY DEF Init, DrainInv, StoppedIsDrained, Past

\* The events that have run, or run, do not become fewer.
LEMMA ProgressStep ==
  ASSUME QueueInv, [Next]_vars
  PROVE  /\ curIdx' >= curIdx /\ Len(executed') >= Len(executed)
         /\ Len(executed') + Len(running') >= Len(executed) + Len(running)
         /\ Len(executed) \in Nat /\ Len(running) \in Nat /\ Len(q) \in Nat
         /\ Len(executed') \in Nat /\ Len(running') \in Nat
<1>1. TypeOK /\ Accounted /\ EventsOK BY TypeParts DEF QueueInv
<1>2. EventsOK' /\ Accounted' BY <1>1, EventsStep
<1>3. /\ Len(executed) \in Nat /\ Len(running) \in Nat /\ Len(q) \in Nat
      /\ Len(executed') \in Nat /\ Len(running') \in Nat /\ Len(q') \in Nat
  BY <1>1, <1>2, Lengths DEF EventsOK
<1>4. CASE AddEvent
  BY <1>1, <1>3, <1>4 DEF AddEvent, EventsOK
<1>5. CASE ExecuteTake
  <2>1. running = <<>> /\ Len(running) = 0 BY <1>1, <1>5 DEF EventsOK, ExecuteTake
  <2> QED BY <1>1, <1>3, <1>5, <2>1 DEF ExecuteTake, EventsOK
<1>6. CASE ExecuteEvent
  <2>1. running # <<>> /\ Len(running) = 1
    BY <1>1, <1>6 DEF EventsOK, ExecuteEvent, Accounted
  <2>2. Head(running) \in Nat BY <1>1, <2>1, Lengths DEF EventsOK
  <2>3. Len(executed') = Len(executed) + 1 /\ curIdx' = curIdx
    BY <1>1, <1>6, <2>2, Lengths DEF ExecuteEvent, EventsOK
  <2> QED BY <1>1, <1>3, <2>1, <2>3 DEF EventsOK
<1>7. CASE ~AddEvent /\ ~ExecuteTake /\ ~ExecuteEvent
  BY <1>1, <1>3, <1>7, QuietStep DEF queueVars, EventsOK
<1> QED BY <1>4, <1>5, <1>6, <1>7

\* Steps of the owner that decide whether stop may go on.
LEMMA DrainStep == QueueInv /\ DrainInv /\ [Next]_vars => DrainInv'
<1> SUFFICES ASSUME QueueInv, DrainInv, [Next]_vars PROVE DrainInv'
  OBVIOUS
<1> USE DEF DrainInv, StoppedIsDrained, Past
<1>1. TypeOK /\ Accounted /\ EventsOK /\ PlacesOK /\ CountersOK
  BY TypeParts DEF QueueInv
<1>2. due \in Nat /\ curIdx \in Nat /\ curIdx' \in Nat
  BY <1>1, EventsStep DEF CountersOK, EventsOK
<1>3. CASE AddEvent
  BY <1>1, <1>2, <1>3, ProgressStep
  DEF AddEvent, ownerVars, Notified
<1>4. CASE ExecuteStep
  <2>1. UNCHANGED <<due, call, interrupted>> /\ owner' \in {Notified(owner), owner}
    BY <1>4 DEF ExecuteStep, ExecuteTake, ExecuteBlock, ExecuteWait, ExecuteReturn,
       ExecuteEvent, ExecuteNotify, ownerVars
  <2>2. exec # "none" /\ exec' # "none" /\ exec # "ended"
        /\ (exec' = "ended" => interrupted)
    BY <1>4 DEF ExecuteStep, ExecuteTake, ExecuteBlock, ExecuteWait, ExecuteReturn,
       ExecuteEvent, ExecuteNotify, Throws
  <2>3. owner' \in Past <=> owner \in Past BY <2>1 DEF Notified
  <2>4. /\ owner' = "idle" <=> owner = "idle"
        /\ owner' = "joining" <=> owner = "joining"
    BY <2>1 DEF Notified
  <2>5. due <= curIdx' BY <1>2, ProgressStep
  <2>6. owner' \in Past => due <= Len(executed') + Len(running')
    BY <1>2, <2>3, ProgressStep
  <2> QED BY <2>1, <2>2, <2>3, <2>4, <2>5, <2>6
<1>5. CASE ResumeNotify
  BY <1>1, <1>2, <1>5 DEF ResumeNotify, queueVars, Notified
<1>6. CASE WaitBlock \/ WaitSleep
  BY <1>1, <1>2, <1>6 DEF WaitBlock, WaitSleep, queueVars, ownerVars
<1>7. CASE WaitReturn
  <2>1. Len(q) = 0 BY <1>7 DEF WaitReturn, Drained
  <2>2. due <= Len(executed) + Len(running) BY <1>1, <1>2, <2>1, ProgressStep DEF Accounted
  <2> QED BY <1>1, <1>2, <1>7, <2>2 DEF WaitReturn, queueVars
<1>8. CASE Interrupt
  BY <1>1, <1>2, <1>8 DEF Interrupt, queueVars, ownerVars, Notified
<1>9. CASE Join
  <2>1. running = <<>> /\ Len(running) = 0 BY <1>1, <1>9 DEF Join, EventsOK
  <2>2. due <= Len(executed) BY <1>2, <1>9, <2>1, ProgressStep DEF Join
  <2> QED BY <1>1, <1>2, <1>9, <2>2 DEF Join, queueVars
<1>10. CASE OwnerCall
  BY <1>1, <1>2, <1>10
  DEF OwnerCall, Pause, CallResume, CallWait, CallStop, Start, queueVars, ownerVars
<1>11. CASE Spurious
  BY <1>1, <1>2, <1>11 DEF Spurious, queueVars, ownerVars
<1>12. CASE UNCHANGED vars
  BY <1>12 DEF vars, queueVars, ownerVars
<1> QED
  BY <1>3, <1>4, <1>5, <1>6, <1>7, <1>8, <1>9, <1>10, <1>11, <1>12 DEF Next, OwnerStep

(***************************************************************************)
(* Wake-ups.  paused is read with the mutex held but written without it;   *)
(* as long as it is not written, what the running thread found holds until *)
(* it waits, and whoever adds an event then notifies it.                   *)
(***************************************************************************)
AwakeInv ==
  pauses = 0 => ~paused /\ (exec \in {"blocking", "waiting"} => q = <<>>)

\* AwakeInv is inductive, the types given.
LEMMA AwakeStep == QueueInv /\ AwakeInv /\ [Next]_vars => AwakeInv'
<1> SUFFICES ASSUME QueueInv, AwakeInv, [Next]_vars, pauses' = 0
             PROVE  ~paused' /\ (exec' \in {"blocking", "waiting"} => q' = <<>>)
  BY DEF AwakeInv
<1>1. pauses \in Nat BY DEF QueueInv, TypeOK
<1> USE DEF AwakeInv, ownerVars, queueVars
<1>2. CASE AddEvent
  BY <1>2 DEF AddEvent, Unlocked, Notified
<1>3. CASE ExecuteStep
  BY <1>3 DEF ExecuteStep, ExecuteTake, ExecuteBlock, ExecuteWait, ExecuteReturn,
     ExecuteEvent, ExecuteNotify, Ready
<1>4. CASE OwnerStep
  BY <1>4 DEF OwnerStep, ResumeNotify, WaitBlock, WaitSleep, WaitReturn, Interrupt, Join,
     Notified
<1>5. CASE OwnerCall
  <2>1. ~Pause BY <1>1 DEF Pause
  <2> QED BY <1>5, <2>1 DEF OwnerCall, CallResume, CallWait, CallStop, Start
<1>6. CASE Spurious BY <1>6 DEF Spurious
<1>7. CASE UNCHANGED vars BY <1>7 DEF vars
<1> QED BY <1>2, <1>3, <1>4, <1>5, <1>6, <1>7 DEF Next

\* The variables of the event queue keep their types.
THEOREM QueueTypeCorrect == Spec => []TypeOK
<1>1. QueueInv => TypeOK BY DEF QueueInv
<1> QED BY <1>1, QueueInductive, PTL DEF Spec

\* The event queue implements SerialQueue: every event runs once, alone and in
\* order, whatever the threads do.
THEOREM SerialCorrect == Spec => ImplementsSerialQueue
<1>1. Init => Promise!Init BY DEF Init, Promise!Init
<1> QED BY <1>1, QueueInductive, SerialStep, PTL DEF Spec, ImplementsSerialQueue, Promise!Spec

\* stop is graceful: what had been added when it was called has run when it returns.
THEOREM StopIsGraceful == Spec => []StoppedIsDrained
<1>1. DrainInv => StoppedIsDrained BY DEF DrainInv
<1> QED BY <1>1, QueueInductive, DrainInit, DrainStep, PTL DEF Spec

\* A queue that is never paused loses no wake-up: its running thread does not wait
\* while there is an event.
THEOREM NoLostWakeup == Spec => []AwakeForEvents
<1>1. Init => AwakeInv BY DEF Init, AwakeInv
<1>2. AwakeInv => AwakeForEvents BY DEF AwakeInv, AwakeForEvents
<1> QED BY <1>1, <1>2, QueueInductive, AwakeStep, PTL DEF Spec
=============================================================================
