---------------------- MODULE HeartBeatControllerProofs -----------------------
(***************************************************************************)
(* For any number of transformations and of handlers, one thread beats at  *)
(* a time, th is free when a thread is assigned to it, and a server that   *)
(* is up keeps a timer.                                                    *)
(***************************************************************************)
EXTENDS HeartBeatController, SequenceTheorems, TLAPS

Launching(a) == place[a] = "launching"

\* Who has taken m launches alone, while no thread is alive or referred to.
LaunchesAlone ==
  \A a \in Actor : Launching(a) =>
    /\ \A c \in Actor : Launching(c) => c = a
    /\ \A b \in 1..Len(beats) : ~Alive(b) /\ ~Referenced(b)

BeatInv == LaunchesAlone /\ OneBeat

\* The steps of the two actors outside stop and start, ...
UserStep ==
  \/ Enter \/ Dispatch \/ Answer \/ Reject
  \/ Restart \/ RestartInNewTerm \/ StartAgain
  \/ Transform \/ TransformDown \/ TransformInit

\* ... and those of the rest of the server, which have no part in the beating.
ServerStep == Elect \/ StepDown \/ StopResume \/ StopDown

(***************************************************************************)
(* Types                                                                   *)
(***************************************************************************)

\* A beat that is replaced leaves the others as they are.
LEMMA ReplaceBeat ==
  ASSUME beats \in Seq(Beat), NEW b \in 1..Len(beats), NEW r \in Beat
  PROVE  /\ [beats EXCEPT ![b] = r] \in Seq(Beat)
         /\ Len([beats EXCEPT ![b] = r]) = Len(beats)
         /\ \A c \in 1..Len(beats) :
              [beats EXCEPT ![b] = r][c] = IF c = b THEN r ELSE beats[c]
BY ExceptSeq

\* Interrupt keeps the places of all threads.
LEMMA InterruptBeats ==
  ASSUME TypeOK, NEW a \in Actor, Interrupt(a)
  PROVE  /\ beats' \in Seq(Beat) /\ Len(beats') = Len(beats)
         /\ \A b \in 1..Len(beats) : beats'[b].at = beats[b].at
<1>1. CASE th = 0
  <2>1. beats' = beats BY <1>1 DEF Interrupt
  <2> QED BY <2>1 DEF TypeOK
<1>2. CASE th # 0
  <2> DEFINE r == [beats[th] EXCEPT !.interrupted = TRUE]
  <2>1. beats \in Seq(Beat) /\ th \in 1..Len(beats) BY <1>2 DEF TypeOK
  <2>2. beats[th] \in Beat BY <2>1
  <2>3. r \in Beat /\ r.at = beats[th].at BY <2>2 DEF Beat
  <2>4. beats' = [beats EXCEPT ![th] = r] BY <1>2 DEF Interrupt
  <2> HIDE DEF r
  <2> QED BY <2>1, <2>3, <2>4, ReplaceBeat
<1> QED BY <1>1, <1>2

\* A step of a beating thread moves that thread only.
LEMMA BeatStepBeats ==
  ASSUME TypeOK, NEW b \in 1..Len(beats), BeatStep(b)
  PROVE  /\ beats' \in Seq(Beat) /\ Len(beats') = Len(beats)
         /\ \A c \in 1..Len(beats) : Alive(c)' => Alive(c)
<1>1. PICK p \in {"sleeping", "calling", "cut", "done"} :
        beats' = [beats EXCEPT ![b].at = p]
  <2>1. CASE Wake(b) BY <2>1 DEF Wake
  <2>2. CASE Cut(b) BY <2>2 DEF Cut
  <2>3. CASE Call(b) BY <2>3 DEF Call
  <2> QED BY <2>1, <2>2, <2>3 DEF BeatStep
<1>2. Alive(b) BY DEF BeatStep, Wake, Cut, Call, Alive
<1> DEFINE r == [beats[b] EXCEPT !.at = p]
<1>3. beats \in Seq(Beat) /\ beats[b] \in Beat BY DEF TypeOK
<1>4. r \in Beat BY <1>3 DEF Beat
<1>5. beats' = [beats EXCEPT ![b] = r] BY <1>1
<1> HIDE DEF r
<1>6. /\ beats' \in Seq(Beat) /\ Len(beats') = Len(beats)
      /\ \A c \in 1..Len(beats) : beats'[c] = IF c = b THEN r ELSE beats[c]
  BY <1>3, <1>4, <1>5, ReplaceBeat
<1>7. ASSUME NEW c \in 1..Len(beats), Alive(c)' PROVE Alive(c)
  <2>1. CASE c = b BY <2>1, <1>2
  <2>2. CASE c # b
    <3>1. beats'[c] = beats[c] BY <1>6, <2>2
    <3> QED BY <1>7, <3>1 DEF Alive
  <2> QED BY <2>1, <2>2
<1> QED BY <1>6, <1>7

\* Launch adds one thread behind those there are.
LEMMA LaunchBeats ==
  ASSUME TypeOK, NEW a \in Actor, Launch(a)
  PROVE  /\ beats' \in Seq(Beat) /\ Len(beats') = Len(beats) + 1
         /\ \A b \in 1..Len(beats) : beats'[b] = beats[b]
<1>1. beats \in Seq(Beat) BY DEF TypeOK
<1>2. Launched(a) \in Beat BY DEF Launched, Beat, TypeOK
<1>3. beats' = Append(beats, Launched(a)) BY DEF Launch
<1> QED BY <1>1, <1>2, <1>3, AppendProperties

\* The types hold before AsyncRun.
LEMMA InitTypes == Init => TypeOK
<1> SUFFICES ASSUME Init PROVE TypeOK
  OBVIOUS
<1>1. beats \in Seq(Beat) /\ Len(beats) = 0 BY DEF Init
<1>2. th \in 0..Len(beats) /\ joined \in [Actor -> 0..Len(beats)]
  BY <1>1 DEF Init
<1>3. place \in [Actor -> Place] /\ repeat \in [Actor -> BOOLEAN]
  BY DEF Init, Place
<1>4. events \in Seq(Identity) BY DEF Init, Identity
<1> QED BY <1>1, <1>2, <1>3, <1>4 DEF Init, TypeOK, Identity

\* A transformation asked for goes to the end of the queue.
LEMMA NotifyTypes ==
  ASSUME TypeOK, NEW to \in Identity, Notify(to)
  PROVE  events' \in Seq(Identity)
<1>1. events \in Seq(Identity) BY DEF TypeOK
<1> QED BY <1>1, AppendProperties DEF Notify

\* A step of an actor in stop or start keeps the types.
LEMMA ActorTypes ==
  ASSUME TypeOK, NEW a \in Actor, ActorStep(a)
  PROVE  TypeOK'
<1> USE DEF Move
<1>1. CASE Interrupt(a)
  <2>1. beats' \in Seq(Beat) /\ Len(beats') = Len(beats) BY <1>1, InterruptBeats
  <2> QED BY <1>1, <2>1 DEF Interrupt, TypeOK, Place, raftVars, queueVars, counters
<1>2. CASE Join(a)
  BY <1>2 DEF Join, TypeOK, Place, raftVars, queueVars, counters, beatVars
<1>3. CASE Joined(a)
  <2>1. th' \in 0..Len(beats) BY <1>3 DEF Joined, TypeOK
  <2> QED BY <1>3, <2>1 DEF Joined, TypeOK, Place, raftVars, queueVars, counters
<1>4. CASE Release(a)
  BY <1>4 DEF Release, TypeOK, Place, raftVars, queueVars, counters, beatVars
<1>5. CASE TryLock(a)
  BY <1>5 DEF TryLock, TypeOK, Place, raftVars, queueVars, counters
<1>6. CASE TryLockFails(a)
  <2>1. holdsTerm' \in BOOLEAN /\ paused' \in BOOLEAN
    BY <1>6 DEF TryLockFails, Leave, TypeOK
  <2> QED BY <1>6, <2>1 DEF TryLockFails, Leave, TypeOK, Place, counters, beatVars
<1>7. CASE Launch(a)
  <2>1. beats' \in Seq(Beat) /\ Len(beats') = Len(beats) + 1 BY <1>7, LaunchBeats
  <2>2. th' \in 0..Len(beats') BY <1>7, <2>1 DEF Launch, TypeOK
  <2>3. joined' \in [Actor -> 0..Len(beats')] BY <1>7, <2>1 DEF Launch, TypeOK
  <2>4. holdsTerm' \in BOOLEAN /\ paused' \in BOOLEAN
    BY <1>7 DEF Launch, Leave, TypeOK
  <2> QED BY <1>7, <2>1, <2>2, <2>3, <2>4 DEF Launch, Leave, TypeOK, Place, counters
<1> QED BY <1>1, <1>2, <1>3, <1>4, <1>5, <1>6, <1>7 DEF ActorStep

\* So do the steps of the two actors outside stop and start.
LEMMA UserTypes ==
  ASSUME TypeOK, UserStep
  PROVE  TypeOK'
<1> USE DEF Move, Actor
<1>1. CASE Enter BY <1>1 DEF Enter, TypeOK, Place, beatVars, queueVars
<1>2. CASE Dispatch
  <2>1. PICK p \in Place : Move("handler", p) BY <1>2 DEF Dispatch, Place
  <2> QED BY <1>2, <2>1 DEF Dispatch, TypeOK, raftVars, queueVars, counters, beatVars
<1>3. CASE Answer
  <2>1. events' \in Seq(Identity) BY <1>3, NotifyTypes DEF Answer, TypeOK, Identity
  <2> QED BY <1>3, <2>1 DEF Answer, TypeOK, Place, counters, beatVars
<1>4. CASE Reject
  BY <1>4 DEF Reject, TypeOK, Place, raftVars, queueVars, counters, beatVars
<1>5. CASE Restart
  BY <1>5 DEF Restart, TypeOK, Place, raftVars, queueVars, counters, beatVars
<1>6. CASE RestartInNewTerm
  BY <1>6 DEF RestartInNewTerm, TypeOK, Place, queueVars, counters, beatVars
<1>7. CASE StartAgain
  BY <1>7 DEF StartAgain, TypeOK, Place, raftVars, queueVars, counters, beatVars
<1>8. CASE Transform
  <2>1. events \in Seq(Identity) /\ events # <<>> BY <1>8 DEF Transform, TypeOK
  <2>2. target' \in Identity /\ events' \in Seq(Identity)
    BY <1>8, <2>1, HeadTailProperties DEF Transform
  <2>3. place' \in [Actor -> Place] BY <1>8 DEF Transform, TypeOK, Place
  <2>4. transforms' \in Nat /\ paused' \in BOOLEAN BY <1>8 DEF Transform, TypeOK
  <2>5. UNCHANGED <<beats, th, func, repeatCache, joined, repeat, identity, holdsTerm,
                    elected, stop, handlers>>
    BY <1>8 DEF Transform, beatVars
  <2> QED BY <2>2, <2>3, <2>4, <2>5 DEF TypeOK
<1>9. CASE TransformDown
  BY <1>9 DEF TransformDown, TypeOK, Place, Identity, counters, beatVars
<1>10. CASE TransformInit
  BY <1>10 DEF TransformInit, Bind, TypeOK, Place, counters
<1> QED BY <1>1, <1>2, <1>3, <1>4, <1>5, <1>6, <1>7, <1>8, <1>9, <1>10 DEF UserStep

\* So do those of the rest of the server.
LEMMA ServerTypes ==
  ASSUME TypeOK, ServerStep
  PROVE  TypeOK'
<1>1. CASE Elect
  <2>1. events' \in Seq(Identity) BY <1>1, NotifyTypes DEF Elect, Identity
  <2> QED BY <1>1, <2>1 DEF Elect, TypeOK, counters, beatVars
<1>2. CASE StopResume BY <1>2 DEF StopResume, TypeOK, counters, beatVars
<1>3. CASE StopDown
  <2>1. events' \in Seq(Identity) BY <1>3, NotifyTypes DEF StopDown, Identity
  <2> QED BY <1>3, <2>1 DEF StopDown, TypeOK, counters, beatVars
<1>4. CASE StepDown
  <2>1. events' \in Seq(Identity) BY <1>4, NotifyTypes DEF StepDown, Identity
  <2> QED BY <1>4, <2>1 DEF StepDown, TypeOK, counters, beatVars
<1> QED BY <1>1, <1>2, <1>3, <1>4 DEF ServerStep

\* A beating thread keeps the types.
LEMMA BeatTypes ==
  ASSUME TypeOK, NEW b \in 1..Len(beats), BeatStep(b)
  PROVE  TypeOK'
<1>1. beats' \in Seq(Beat) /\ Len(beats') = Len(beats) BY BeatStepBeats
<1>2. CASE Wake(b)
  BY <1>1, <1>2 DEF Wake, TypeOK, raftVars, queueVars, counters
<1>3. CASE Cut(b)
  BY <1>1, <1>3 DEF Cut, TypeOK, raftVars, queueVars, counters
<1>4. CASE Call(b)
  <2>1. events' \in Seq(Identity) BY <1>4, NotifyTypes DEF Call, TypeOK, Identity
  <2> QED BY <1>1, <1>4, <2>1 DEF Call, TypeOK, counters
<1> QED BY <1>2, <1>3, <1>4 DEF BeatStep

\* Every step keeps the types.
LEMMA NextTypes == TypeOK /\ [Next]_vars => TypeOK'
<1> SUFFICES ASSUME TypeOK, [Next]_vars PROVE TypeOK'
  OBVIOUS
<1>1. CASE UserStep BY <1>1, UserTypes
<1>2. ASSUME NEW a \in Actor, ActorStep(a) PROVE TypeOK'
  BY <1>2, ActorTypes
<1>3. CASE ServerStep BY <1>3, ServerTypes
<1>4. CASE \E b \in 1..Len(beats) : BeatStep(b) BY <1>4, BeatTypes
<1>5. CASE UNCHANGED vars
  BY <1>5 DEF vars, beatVars, raftVars, queueVars, counters, TypeOK
<1> QED BY <1>1, <1>2, <1>3, <1>4, <1>5 DEF Next, HandlerStep, TransformerStep, UserStep,
        ServerStep, Actor

\* The controller keeps its types, whatever its users do: th and join refer to
\* threads that were started.
THEOREM BeatTypeCorrect == Spec => []TypeOK
<1> QED BY InitTypes, NextTypes, PTL DEF Spec

(***************************************************************************)
(* Nobody launches while a thread is alive or referred to, and so one      *)
(* thread beats at a time.                                                 *)
(***************************************************************************)

\* BeatInv is kept by a step after which nobody launches who did not before,
\* no thread is alive that was not, and, if somebody launches, none is referred
\* to that was not.
LEMMA QuietStep ==
  ASSUME BeatInv, Len(beats') = Len(beats),
         \A a \in Actor : Launching(a)' => Launching(a),
         \A b \in 1..Len(beats) : Alive(b)' => Alive(b),
         ASSUME NEW a \in Actor, Launching(a)
         PROVE  \A b \in 1..Len(beats) : Referenced(b)' => Referenced(b)
  PROVE  BeatInv'
<1>1. ASSUME NEW a \in Actor, Launching(a)'
      PROVE  /\ \A c \in Actor : Launching(c)' => c = a
             /\ \A b \in 1..Len(beats') : ~Alive(b)' /\ ~Referenced(b)'
  <2>1. Launching(a) BY <1>1
  <2>2. /\ \A c \in Actor : Launching(c) => c = a
        /\ \A b \in 1..Len(beats) : ~Alive(b) /\ ~Referenced(b)
    BY <2>1 DEF BeatInv, LaunchesAlone
  <2>3. \A b \in 1..Len(beats) : Referenced(b)' => Referenced(b) BY <2>1
  <2> QED BY <2>2, <2>3
<1>2. LaunchesAlone' BY <1>1 DEF LaunchesAlone
<1>3. \A b, c \in 1..Len(beats) : Alive(b)' /\ Alive(c)' => b = c
  BY DEF BeatInv, OneBeat
<1>4. OneBeat' BY <1>3 DEF OneBeat
<1> QED BY <1>2, <1>4 DEF BeatInv

\* While somebody launches, th refers to no thread.
LEMMA LaunchFree ==
  ASSUME TypeOK, BeatInv, NEW a \in Actor, Launching(a)
  PROVE  th = 0
<1>1. \A b \in 1..Len(beats) : ~Referenced(b) BY DEF BeatInv, LaunchesAlone
<1>2. th \in 0..Len(beats) BY DEF TypeOK
<1>3. CASE th \in 1..Len(beats) BY <1>1, <1>3 DEF Referenced
<1> QED BY <1>2, <1>3

\* A step that leaves the threads and th alone, and starts no launch.
LEMMA UntouchedBeats ==
  ASSUME TypeOK, BeatInv, NEW a \in Actor, NEW p \in Place, Move(a, p),
         p # "launching", UNCHANGED <<beats, th, joined>>
  PROVE  BeatInv'
<1>1. \A c \in Actor : Launching(c)' => Launching(c)
  BY DEF Move, TypeOK, Launching
<1>2. \A b \in 1..Len(beats) : Alive(b)' => Alive(b) BY DEF Alive
<1>3. \A b \in 1..Len(beats) : Referenced(b)' => Referenced(b) BY DEF Referenced
<1> QED BY <1>1, <1>2, <1>3, QuietStep

\* The steps of an actor in stop and start.
LEMMA ActorBeatInv ==
  ASSUME TypeOK, BeatInv, NEW a \in Actor, ActorStep(a)
  PROVE  BeatInv'
<1>1. CASE Interrupt(a)
  <2>1. Len(beats') = Len(beats) /\ \A b \in 1..Len(beats) : beats'[b].at = beats[b].at
    BY <1>1, InterruptBeats
  <2>2. \A b \in 1..Len(beats) : Alive(b)' => Alive(b) BY <2>1 DEF Alive
  <2>3. \A c \in Actor : Launching(c)' => Launching(c)
    BY <1>1 DEF Interrupt, Move, TypeOK, Launching
  <2>4. \A b \in 1..Len(beats) : Referenced(b)' => Referenced(b)
    BY <1>1 DEF Interrupt, Referenced
  <2> QED BY <2>1, <2>2, <2>3, <2>4, QuietStep
<1>2. CASE Join(a)
  <2>1. UNCHANGED <<beats, th>> BY <1>2 DEF Join, beatVars
  <2>2. \A b \in 1..Len(beats) : Alive(b)' => Alive(b) BY <2>1 DEF Alive
  <2>3. \A c \in Actor : Launching(c)' => Launching(c)
    BY <1>2 DEF Join, Move, TypeOK, Launching
  <2>4. ASSUME NEW c \in Actor, Launching(c)
        PROVE  \A b \in 1..Len(beats) : Referenced(b)' => Referenced(b)
    <3>1. th = 0 BY <2>4, LaunchFree
    <3>2. joined' = [joined EXCEPT ![a] = 0] BY <1>2, <3>1 DEF Join
    <3>3. \A b \in 1..Len(beats), d \in Actor : joined'[d] = b => joined[d] = b
      BY <3>2 DEF TypeOK
    <3> QED BY <2>1, <3>3 DEF Referenced
  <2> QED BY <2>1, <2>2, <2>3, <2>4, QuietStep
<1>3. CASE Joined(a)
  <2>1. UNCHANGED <<beats, joined>> BY <1>3 DEF Joined
  <2>2. \A b \in 1..Len(beats) : Alive(b)' => Alive(b) BY <2>1 DEF Alive
  <2>3. \A c \in Actor : Launching(c)' => Launching(c)
    BY <1>3 DEF Joined, Move, TypeOK, Launching
  <2>4. th' \in {0, th} BY <1>3 DEF Joined
  <2>5. \A b \in 1..Len(beats) : Referenced(b)' => Referenced(b)
    BY <2>1, <2>4 DEF Referenced
  <2> QED BY <2>1, <2>2, <2>3, <2>5, QuietStep
<1>4. CASE Release(a)
  <2>1. UNCHANGED <<beats, th>> BY <1>4 DEF Release, beatVars
  <2>2. \A b \in 1..Len(beats) : Alive(b)' => Alive(b) BY <2>1 DEF Alive
  <2>3. \A c \in Actor : Launching(c)' => Launching(c)
    BY <1>4 DEF Release, Move, TypeOK, Launching
  <2>4. joined' = [joined EXCEPT ![a] = 0] BY <1>4 DEF Release
  <2>5. \A b \in 1..Len(beats), d \in Actor : joined'[d] = b => joined[d] = b
    BY <2>4 DEF TypeOK
  <2>6. \A b \in 1..Len(beats) : Referenced(b)' => Referenced(b)
    BY <2>1, <2>5 DEF Referenced
  <2> QED BY <2>1, <2>2, <2>3, <2>6, QuietStep
<1>5. CASE TryLock(a)
  <2>1. UNCHANGED <<beats, th, joined>> BY <1>5 DEF TryLock
  <2>2. /\ \A c \in Actor : ~Launching(c)
        /\ \A b \in 1..Len(beats) : ~Alive(b) /\ ~Referenced(b)
    BY <1>5 DEF TryLock, Locked, Launching
  <2>3. \A c \in Actor : Launching(c)' => c = a
    BY <1>5, <2>2 DEF TryLock, Move, TypeOK, Launching
  <2>4. \A b \in 1..Len(beats') : ~Alive(b)' /\ ~Referenced(b)'
    BY <2>1, <2>2 DEF Alive, Referenced
  <2>5. LaunchesAlone' BY <2>3, <2>4 DEF LaunchesAlone
  <2>6. OneBeat' BY <2>4 DEF OneBeat
  <2> QED BY <2>5, <2>6 DEF BeatInv
<1>6. CASE TryLockFails(a)
  <2>1. Move(a, "out") /\ UNCHANGED <<beats, th, joined>>
    BY <1>6 DEF TryLockFails, Leave, beatVars
  <2> QED BY <2>1, UntouchedBeats DEF Place
<1>7. CASE Launch(a)
  <2>1. Launching(a) BY <1>7 DEF Launch, Launching
  <2>2. /\ \A c \in Actor : Launching(c) => c = a
        /\ \A b \in 1..Len(beats) : ~Alive(b)
    BY <2>1 DEF BeatInv, LaunchesAlone
  <2>3. Len(beats') = Len(beats) + 1 /\ \A b \in 1..Len(beats) : beats'[b] = beats[b]
    BY <1>7, LaunchBeats
  <2>4. \A c \in Actor : ~Launching(c)'
    BY <1>7, <2>2 DEF Launch, Leave, Move, TypeOK, Launching
  <2>5. \A b \in 1..Len(beats) : ~Alive(b)' BY <2>2, <2>3 DEF Alive
  <2>6. Len(beats) \in Nat BY DEF TypeOK
  <2>7. \A b, c \in 1..Len(beats') : Alive(b)' /\ Alive(c)' => b = c
    BY <2>3, <2>5, <2>6
  <2>8. LaunchesAlone' BY <2>4 DEF LaunchesAlone
  <2>9. OneBeat' BY <2>7 DEF OneBeat
  <2> QED BY <2>8, <2>9 DEF BeatInv
<1> QED BY <1>1, <1>2, <1>3, <1>4, <1>5, <1>6, <1>7 DEF ActorStep

\* The steps of the two actors outside stop and start.
LEMMA UserBeatInv ==
  ASSUME TypeOK, BeatInv, UserStep
  PROVE  BeatInv'
<1>1. PICK a \in Actor, p \in Place \ {"launching"} : Move(a, p)
  <2> USE DEF Actor, Place
  <2>1. CASE Enter BY <2>1 DEF Enter
  <2>2. CASE Dispatch BY <2>2 DEF Dispatch
  <2>3. CASE Answer BY <2>3 DEF Answer
  <2>4. CASE Reject BY <2>4 DEF Reject
  <2>5. CASE Restart BY <2>5 DEF Restart
  <2>6. CASE RestartInNewTerm BY <2>6 DEF RestartInNewTerm
  <2>7. CASE StartAgain BY <2>7 DEF StartAgain
  <2>8. CASE Transform BY <2>8 DEF Transform
  <2>9. CASE TransformDown BY <2>9 DEF TransformDown
  <2>10. CASE TransformInit BY <2>10 DEF TransformInit
  <2> QED BY <2>1, <2>2, <2>3, <2>4, <2>5, <2>6, <2>7, <2>8, <2>9, <2>10 DEF UserStep
<1>2. UNCHANGED <<beats, th, joined>>
  BY DEF UserStep, Enter, Dispatch, Answer, Reject, Restart, RestartInNewTerm, StartAgain,
         Transform, TransformDown, TransformInit, beatVars
<1> QED BY <1>1, <1>2, UntouchedBeats

\* The steps of the rest of the server.
LEMMA ServerBeatInv ==
  ASSUME BeatInv, ServerStep
  PROVE  BeatInv'
<1>1. UNCHANGED <<beats, th, joined, place>>
  BY DEF ServerStep, Elect, StepDown, StopResume, StopDown, beatVars
<1> QED BY <1>1 DEF BeatInv, LaunchesAlone, OneBeat, Launching, Alive, Referenced

\* The steps of a beating thread.
LEMMA BeatBeatInv ==
  ASSUME TypeOK, BeatInv, NEW b \in 1..Len(beats), BeatStep(b)
  PROVE  BeatInv'
<1>1. Len(beats') = Len(beats) /\ \A c \in 1..Len(beats) : Alive(c)' => Alive(c)
  BY BeatStepBeats
<1>2. UNCHANGED <<th, place, joined>> BY DEF BeatStep, Wake, Cut, Call
<1>3. \A a \in Actor : Launching(a)' => Launching(a) BY <1>2 DEF Launching
<1>4. \A c \in 1..Len(beats) : Referenced(c)' => Referenced(c) BY <1>2 DEF Referenced
<1> QED BY <1>1, <1>3, <1>4, QuietStep

\* Every step keeps BeatInv.
LEMMA NextBeatInv == TypeOK /\ BeatInv /\ [Next]_vars => BeatInv'
<1> SUFFICES ASSUME TypeOK, BeatInv, [Next]_vars PROVE BeatInv'
  OBVIOUS
<1>1. CASE UserStep BY <1>1, UserBeatInv
<1>2. ASSUME NEW a \in Actor, ActorStep(a) PROVE BeatInv'
  BY <1>2, ActorBeatInv
<1>3. CASE ServerStep BY <1>3, ServerBeatInv
<1>4. CASE \E b \in 1..Len(beats) : BeatStep(b) BY <1>4, BeatBeatInv
<1>5. CASE UNCHANGED vars
  BY <1>5 DEF vars, beatVars, BeatInv, LaunchesAlone, OneBeat, Launching, Alive, Referenced
<1> QED BY <1>1, <1>2, <1>3, <1>4, <1>5 DEF Next, HandlerStep, TransformerStep, UserStep,
        ServerStep, Actor

\* No thread has been started and nobody launches before AsyncRun.
LEMMA InitBeatInv == Init => BeatInv
<1> SUFFICES ASSUME Init PROVE BeatInv
  OBVIOUS
<1>1. \A a \in Actor : ~Launching(a) BY DEF Init, Launching
<1>2. Len(beats) = 0 BY DEF Init
<1> QED BY <1>1, <1>2 DEF BeatInv, LaunchesAlone, OneBeat

\* BeatInv holds of every execution.
LEMMA BeatInvHolds == Spec => []BeatInv
<1> QED BY InitBeatInv, NextBeatInv, BeatTypeCorrect, PTL DEF Spec

\* One thread beats at a time, however restarts and transformations meet: the
\* lock that a started thread carries keeps every other start away.
THEOREM OneThreadBeats == Spec => []OneBeat
<1>1. BeatInv => OneBeat BY DEF BeatInv
<1> QED BY <1>1, BeatInvHolds, PTL

\* The assertion of start holds: th is not joinable when it is assigned to.
THEOREM ThIsFree == Spec => []NotJoinable
<1>1. TypeOK /\ BeatInv => NotJoinable
  BY LaunchFree DEF NotJoinable, Launching
<1> QED BY <1>1, BeatTypeCorrect, BeatInvHolds, PTL

(***************************************************************************)
(* A server that is up keeps a timer: who spoils the one there is, or finds *)
(* none, starts another, or leaves that to the other actor.                 *)
(***************************************************************************)

\* An actor that has nothing to stop or to start.
AtRest(a) == place[a] \in {"out", "entered", "following", "asking"}

\* There is a thread for every start that is not still to come, ...
StartComes ==
  th = 0 /\ identity # "Down" => \E a \in Actor : ~AtRest(a)

\* ... and for every interruption a join, which takes th away.
JoinComes ==
  th # 0 /\ beats[th].interrupted =>
    \E a \in Actor : place[a] = "joining" \/ (place[a] = "waiting" /\ joined[a] = th)

TimerInv ==
  /\ \A b \in 1..Len(beats) : beats[b].at = "cut" => beats[b].interrupted
  /\ \A b \in 1..Len(beats) : Alive(b) => th = b
  /\ \A a \in Actor : joined[a] # 0 => place[a] \in {"waiting", "leaving"}
  /\ JoinComes
  /\ StartComes

\* An actor goes on that joins nothing, and either is to start a thread or
\* leaves that to another.
LEMMA TimerMoved ==
  ASSUME TypeOK, TimerInv, NEW a \in Actor, NEW p \in Place, Move(a, p),
         UNCHANGED <<beats, th, joined>>,
         place[a] \notin {"joining", "waiting", "leaving"},
         \/ p \notin {"out", "entered", "following", "asking"}
         \/ th # 0 \/ identity' = "Down"
         \/ \E c \in Actor \ {a} : ~AtRest(c)
  PROVE  TimerInv'
<1>1. place'[a] = p /\ \A c \in Actor \ {a} : place'[c] = place[c]
  BY DEF Move, TypeOK
<1>2. joined[a] = 0 BY DEF TimerInv
<1>3. \A c \in Actor : joined'[c] # 0 => place'[c] \in {"waiting", "leaving"}
  BY <1>1, <1>2 DEF TimerInv
<1>4. JoinComes' BY <1>1 DEF TimerInv, JoinComes
<1>5. StartComes' BY <1>1 DEF StartComes, AtRest
<1>6. \A b \in 1..Len(beats') : Alive(b)' => th' = b BY DEF TimerInv, Alive
<1> QED BY <1>3, <1>4, <1>5, <1>6 DEF TimerInv

\* Interrupt spoils the thread it means to join.
LEMMA TimerInterrupted ==
  ASSUME TypeOK, TimerInv, NEW a \in Actor, Interrupt(a)
  PROVE  TimerInv'
<1>1. /\ Len(beats') = Len(beats) /\ UNCHANGED <<th, joined>>
      /\ \A b \in 1..Len(beats) : beats'[b].at = beats[b].at
  BY InterruptBeats DEF Interrupt
<1>2. place'[a] = "joining" /\ \A c \in Actor \ {a} : place'[c] = place[c]
  BY DEF Interrupt, Move, TypeOK
<1>3. \A c \in Actor : joined'[c] # 0 => place'[c] \in {"waiting", "leaving"}
  BY <1>1, <1>2 DEF TimerInv, Interrupt
<1>4. JoinComes' /\ StartComes' BY <1>2 DEF JoinComes, StartComes, AtRest
<1>5. \A b \in 1..Len(beats') : Alive(b)' => th' = b
  BY <1>1 DEF TimerInv, Alive
<1>6. ASSUME NEW b \in 1..Len(beats) PROVE beats[b].interrupted => beats'[b].interrupted
  <2>1. CASE th = 0 BY <2>1 DEF Interrupt
  <2>2. CASE th # 0
    <3> DEFINE r == [beats[th] EXCEPT !.interrupted = TRUE]
    <3>1. beats \in Seq(Beat) /\ th \in 1..Len(beats) BY <2>2 DEF TypeOK
    <3>2. beats[th] \in Beat BY <3>1
    <3>3. r \in Beat /\ r.interrupted BY <3>2 DEF Beat
    <3>4. beats' = [beats EXCEPT ![th] = r] BY <2>2 DEF Interrupt
    <3> HIDE DEF r
    <3>5. beats'[b] = IF b = th THEN r ELSE beats[b] BY <3>1, <3>3, <3>4, ReplaceBeat
    <3> QED BY <3>3, <3>5
  <2> QED BY <2>1, <2>2
<1> QED BY <1>1, <1>3, <1>4, <1>5, <1>6 DEF TimerInv

\* The steps of an actor in stop and start.
LEMMA TimerActor ==
  ASSUME TypeOK, BeatInv, TimerInv, NEW a \in Actor, ActorStep(a)
  PROVE  TimerInv'
<1>1. CASE Interrupt(a) BY <1>1, TimerInterrupted
<1>2. CASE Join(a)
  <2>1. UNCHANGED <<beats, th>> BY <1>2 DEF Join, beatVars
  <2>2. /\ joined'[a] = th /\ \A c \in Actor \ {a} : joined'[c] = joined[c]
        /\ place'[a] = (IF th = 0 THEN "stopped" ELSE "waiting")
        /\ \A c \in Actor \ {a} : place'[c] = place[c]
    BY <1>2 DEF Join, Move, TypeOK
  <2>3. \A c \in Actor : joined'[c] # 0 => place'[c] \in {"waiting", "leaving"}
    BY <2>2 DEF TimerInv
  <2>4. JoinComes' /\ StartComes' BY <2>1, <2>2 DEF JoinComes, StartComes, AtRest
  <2>5. \A b \in 1..Len(beats') : Alive(b)' => th' = b BY <2>1 DEF TimerInv, Alive
  <2> QED BY <2>1, <2>3, <2>4, <2>5 DEF TimerInv
<1>3. CASE Joined(a)
  <2>1. /\ UNCHANGED <<beats, joined>> /\ place[a] = "waiting" /\ ~Alive(joined[a])
        /\ th' = IF th = joined[a] THEN 0 ELSE th
    BY <1>3 DEF Joined
  <2>2. place'[a] = "leaving" /\ \A c \in Actor \ {a} : place'[c] = place[c]
    BY <1>3 DEF Joined, Move, TypeOK
  <2>3. \A c \in Actor : joined'[c] # 0 => place'[c] \in {"waiting", "leaving"}
    BY <2>1, <2>2 DEF TimerInv
  <2>4. \A b \in 1..Len(beats') : Alive(b)' => th' = b BY <2>1 DEF TimerInv, Alive
  <2>5. JoinComes'
    <3> SUFFICES ASSUME th' # 0, beats'[th'].interrupted
                 PROVE  \E c \in Actor : place'[c] = "joining"
                                         \/ (place'[c] = "waiting" /\ joined'[c] = th')
      BY DEF JoinComes
    <3>1. th' = th /\ th # joined[a] BY <2>1
    <3>2. PICK c \in Actor : place[c] = "joining" \/ (place[c] = "waiting" /\ joined[c] = th)
      BY <2>1, <3>1 DEF TimerInv, JoinComes
    <3>3. c # a BY <2>1, <3>1, <3>2
    <3> QED BY <2>1, <2>2, <3>1, <3>2, <3>3
  <2>6. StartComes' BY <2>2 DEF StartComes, AtRest
  <2> QED BY <2>1, <2>3, <2>4, <2>5, <2>6 DEF TimerInv
<1>4. CASE Release(a)
  <2>1. UNCHANGED <<beats, th>> /\ place[a] = "leaving" BY <1>4 DEF Release, beatVars
  <2>2. /\ joined'[a] = 0 /\ \A c \in Actor \ {a} : joined'[c] = joined[c]
        /\ place'[a] = "stopped" /\ \A c \in Actor \ {a} : place'[c] = place[c]
    BY <1>4 DEF Release, Move, TypeOK
  <2>3. \A c \in Actor : joined'[c] # 0 => place'[c] \in {"waiting", "leaving"}
    BY <2>2 DEF TimerInv
  <2>4. JoinComes' BY <2>1, <2>2 DEF TimerInv, JoinComes
  <2>5. StartComes' BY <2>2 DEF StartComes, AtRest
  <2>6. \A b \in 1..Len(beats') : Alive(b)' => th' = b BY <2>1 DEF TimerInv, Alive
  <2> QED BY <2>1, <2>3, <2>4, <2>5, <2>6 DEF TimerInv
<1>5. CASE TryLock(a)
  BY <1>5, TimerMoved DEF TryLock, Place
<1>6. CASE TryLockFails(a)
  <2>1. /\ Move(a, "out") /\ UNCHANGED <<beats, th, joined>> /\ place[a] = "starting"
        /\ Locked
    BY <1>6 DEF TryLockFails, Leave, beatVars
  <2>2. th # 0 \/ \E c \in Actor \ {a} : ~AtRest(c)
    <3>1. CASE \E c \in Actor : place[c] = "launching" BY <2>1, <3>1 DEF AtRest
    <3>2. ASSUME NEW b \in 1..Len(beats), Alive(b) PROVE th # 0
      BY <3>2 DEF TimerInv
    <3>3. ASSUME NEW b \in 1..Len(beats), Referenced(b)
          PROVE  th # 0 \/ \E c \in Actor \ {a} : ~AtRest(c)
      <4>1. CASE th = b BY <4>1
      <4>2. ASSUME NEW c \in Actor, joined[c] = b
            PROVE  c # a /\ ~AtRest(c)
        BY <2>1, <3>3, <4>2 DEF TimerInv, AtRest
      <4> QED BY <3>3, <4>1, <4>2 DEF Referenced
    <3> QED BY <2>1, <3>1, <3>2, <3>3 DEF Locked
  <2> QED BY <2>1, <2>2, TimerMoved DEF Place
<1>7. CASE Launch(a)
  <2>1. Len(beats') = Len(beats) + 1 /\ \A b \in 1..Len(beats) : beats'[b] = beats[b]
    BY <1>7, LaunchBeats
  <2>2. /\ Len(beats) \in Nat /\ joined' = joined /\ place[a] = "launching"
        /\ th' = Len(beats) + 1
    BY <1>7 DEF Launch, TypeOK
  <2>3. beats'[Len(beats) + 1] = Launched(a)
    <3>1. Launched(a) \in Beat BY DEF Launched, Beat, TypeOK
    <3>2. beats \in Seq(Beat) BY DEF TypeOK
    <3> QED BY <1>7, <3>1, <3>2, AppendProperties DEF Launch
  <2>4. ~Launched(a).interrupted /\ Launched(a).at # "cut" BY DEF Launched
  <2>5. \A b \in 1..Len(beats) : ~Alive(b)
    BY <2>2 DEF BeatInv, LaunchesAlone, Launching
  <2>6. \A b \in 1..Len(beats') : b \in 1..Len(beats) \/ b = Len(beats) + 1
    BY <2>1, <2>2
  <2>7. \A b \in 1..Len(beats') : beats'[b].at = "cut" => beats'[b].interrupted
    BY <2>1, <2>3, <2>4, <2>6 DEF TimerInv
  <2>8. \A b \in 1..Len(beats') : Alive(b)' => th' = b
    BY <2>1, <2>2, <2>5, <2>6 DEF Alive
  <2>9. \A c \in Actor : joined'[c] # 0 => place'[c] \in {"waiting", "leaving"}
    BY <1>7, <2>2 DEF TimerInv, Launch, Leave, Move, TypeOK
  <2>10. JoinComes' /\ StartComes' BY <2>2, <2>3, <2>4 DEF JoinComes, StartComes, AtRest
  <2> QED BY <2>7, <2>8, <2>9, <2>10 DEF TimerInv
<1> QED BY <1>1, <1>2, <1>3, <1>4, <1>5, <1>6, <1>7 DEF ActorStep

\* The steps of the two actors outside stop and start.
LEMMA TimerUser ==
  ASSUME TypeOK, TimerInv, UserStep
  PROVE  TimerInv'
<1> USE DEF Place, Actor
<1>1. UNCHANGED <<beats, th, joined>>
  BY DEF UserStep, Enter, Dispatch, Answer, Reject, Restart, RestartInNewTerm, StartAgain,
         Transform, TransformDown, TransformInit, beatVars
<1>2. ASSUME NEW p \in Place, Move("handler", p), identity' = identity,
             place["handler"] \in {"out", "entered", "following", "asking"}
      PROVE  TimerInv'
  <2>1. AtRest("handler") BY <1>2 DEF AtRest
  <2>2. \/ th # 0 \/ identity' = "Down"
        \/ \E c \in Actor \ {"handler"} : ~AtRest(c)
    BY <1>2, <2>1 DEF TimerInv, StartComes, AtRest
  <2> QED BY <1>1, <1>2, <2>2, TimerMoved
<1>3. CASE Enter BY <1>2, <1>3 DEF Enter
<1>4. CASE Dispatch
  <2>1. PICK p \in Place : Move("handler", p) BY <1>4 DEF Dispatch
  <2> QED BY <1>2, <1>4, <2>1 DEF Dispatch, raftVars
<1>5. CASE Answer BY <1>2, <1>5 DEF Answer
<1>6. CASE Reject BY <1>2, <1>6 DEF Reject, raftVars
<1>7. CASE Restart BY <1>2, <1>7 DEF Restart, raftVars
<1>8. CASE RestartInNewTerm BY <1>2, <1>8 DEF RestartInNewTerm
<1>9. CASE StartAgain BY <1>1, <1>9, TimerMoved DEF StartAgain
<1>10. CASE Transform
  <2>1. PICK p \in {"stopped", "stopping"} : Move("transformer", p)
    BY <1>10 DEF Transform
  <2>2. place["transformer"] = "out" BY <1>10 DEF Transform
  <2> QED BY <1>1, <2>1, <2>2, TimerMoved
<1>11. CASE TransformDown BY <1>1, <1>11, TimerMoved DEF TransformDown
<1>12. CASE TransformInit BY <1>1, <1>12, TimerMoved DEF TransformInit
<1> QED BY <1>3, <1>4, <1>5, <1>6, <1>7, <1>8, <1>9, <1>10, <1>11, <1>12 DEF UserStep

\* The steps of the rest of the server.
LEMMA TimerServer ==
  ASSUME TimerInv, ServerStep
  PROVE  TimerInv'
<1>1. UNCHANGED <<beats, th, joined, place, identity>>
  BY DEF ServerStep, Elect, StepDown, StopResume, StopDown, beatVars
<1> QED BY <1>1 DEF TimerInv, JoinComes, StartComes, AtRest, Alive

\* A beating thread is cut only if it was interrupted.
LEMMA TimerBeats ==
  ASSUME TypeOK, TimerInv, NEW b \in 1..Len(beats), BeatStep(b)
  PROVE  TimerInv'
<1>1. Len(beats') = Len(beats) /\ \A c \in 1..Len(beats) : Alive(c)' => Alive(c)
  BY BeatStepBeats
<1>2. UNCHANGED <<th, place, joined, identity>>
  BY DEF BeatStep, Wake, Cut, Call, raftVars
<1>3. PICK p \in {"sleeping", "calling", "cut", "done"} :
        /\ beats' = [beats EXCEPT ![b].at = p]
        /\ p = "cut" => beats[b].interrupted
  <2>1. CASE Wake(b) BY <2>1 DEF Wake
  <2>2. CASE Cut(b) BY <2>2 DEF Cut
  <2>3. CASE Call(b) BY <2>3 DEF Call
  <2> QED BY <2>1, <2>2, <2>3 DEF BeatStep
<1> DEFINE r == [beats[b] EXCEPT !.at = p]
<1>4. beats \in Seq(Beat) /\ beats[b] \in Beat BY DEF TypeOK
<1>5. r \in Beat /\ r.at = p /\ r.interrupted = beats[b].interrupted BY <1>4 DEF Beat
<1>6. beats' = [beats EXCEPT ![b] = r] BY <1>3
<1> HIDE DEF r
<1>7. \A c \in 1..Len(beats) : beats'[c] = IF c = b THEN r ELSE beats[c]
  BY <1>4, <1>5, <1>6, ReplaceBeat
<1>8. \A c \in 1..Len(beats) :
        /\ beats'[c].interrupted = beats[c].interrupted
        /\ beats'[c].at = "cut" => beats[c].interrupted
  BY <1>3, <1>5, <1>7 DEF TimerInv
<1>9. \A c \in 1..Len(beats') : Alive(c)' => th' = c BY <1>1, <1>2 DEF TimerInv
<1>10. JoinComes'
  <2>1. th = 0 \/ th \in 1..Len(beats) BY DEF TypeOK
  <2>2. th # 0 => beats'[th].interrupted = beats[th].interrupted BY <1>8, <2>1
  <2> QED BY <1>2, <2>2 DEF TimerInv, JoinComes
<1>11. StartComes' BY <1>2 DEF TimerInv, StartComes, AtRest
<1> QED BY <1>1, <1>2, <1>8, <1>9, <1>10, <1>11 DEF TimerInv

\* Every step keeps a timer.
LEMMA NextTimer == TypeOK /\ BeatInv /\ TimerInv /\ [Next]_vars => TimerInv'
<1> SUFFICES ASSUME TypeOK, BeatInv, TimerInv, [Next]_vars PROVE TimerInv'
  OBVIOUS
<1>1. CASE UserStep BY <1>1, TimerUser
<1>2. ASSUME NEW a \in Actor, ActorStep(a) PROVE TimerInv'
  BY <1>2, TimerActor
<1>3. CASE ServerStep BY <1>3, TimerServer
<1>4. CASE \E b \in 1..Len(beats) : BeatStep(b) BY <1>4, TimerBeats
<1>5. CASE UNCHANGED vars
  BY <1>5 DEF vars, beatVars, raftVars, TimerInv, JoinComes, StartComes, AtRest, Alive
<1> QED BY <1>1, <1>2, <1>3, <1>4, <1>5 DEF Next, HandlerStep, TransformerStep, UserStep,
        ServerStep, Actor

\* When a transformation and a restart have met and are over, a server that is up
\* has a timer, although each of them gives up when it finds m held, and
\* nobody looks at the answer of start.
THEOREM TimerIsLeft == Spec => []TimerLeft
<1>1. Init => TimerInv
  <2> SUFFICES ASSUME Init PROVE TimerInv
    OBVIOUS
  <2>1. /\ Len(beats) = 0 /\ th = 0 /\ identity = "Down"
        /\ \A a \in Actor : joined[a] = 0
    BY DEF Init
  <2> QED BY <2>1 DEF TimerInv, JoinComes, StartComes
<1>2. TypeOK /\ TimerInv => TimerLeft
  <2> SUFFICES ASSUME TypeOK, TimerInv, \A a \in Actor : place[a] = "out",
                      identity # "Down"
               PROVE  th # 0 /\ beats[th].at # "cut"
    BY DEF TimerLeft
  <2>1. th # 0 BY DEF TimerInv, StartComes, AtRest
  <2>2. ~beats[th].interrupted BY <2>1 DEF TimerInv, JoinComes
  <2>3. th \in 1..Len(beats) BY <2>1 DEF TypeOK
  <2> QED BY <2>1, <2>2, <2>3 DEF TimerInv
<1> QED BY <1>1, <1>2, NextTimer, BeatTypeCorrect, BeatInvHolds, PTL DEF Spec
=============================================================================
