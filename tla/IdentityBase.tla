---------------------------- MODULE IdentityBase ----------------------------
(***************************************************************************)
(* One server of quintet as its RPC handlers see it: ServerState, the       *)
(* election timer of HeartBeatController, the transformation requests that  *)
(* IdentityTransformer puts on the event queue, and the handlers themselves *)
(* (IdentityBaseImpl and the parts the identities wrap around it).  A       *)
(* handler holds the mutex RpcService::rpcing from entry to return and is   *)
(* one step.                                                                *)
(***************************************************************************)
EXTENDS RaftDefs, FiniteSetsExt

VARIABLES
  currentTerm,   \* ServerState::currentTerm
  votedFor,      \* ServerState::votedFor
  entries,       \* ServerState::entries, without entry 0
  commitIdx,     \* ServerState::commitIdx
  lastApplied,   \* ServerState::lastApplied
  applied,       \* the labels of the entries handed to the service, in order
  identity,      \* Raft::Impl::currentIdentity
  termTriggered, \* IdentityTransformer::Impl::termTriggered
  queue,         \* Raft::Impl::eventQueue
  timer          \* the one-shot election timer runs

logVars      == <<entries, commitIdx>>
applyVars    == <<lastApplied, applied>>
triggerVars  == <<termTriggered, queue>>
serverVars   == <<currentTerm, votedFor, logVars, applyVars, identity,
                  triggerVars, timer>>

InitServer ==
  /\ currentTerm   = [i \in Server |-> 0]
  /\ votedFor      = [i \in Server |-> Nil]
  /\ entries       = [i \in Server |-> <<>>]
  /\ commitIdx     = [i \in Server |-> 0]
  /\ lastApplied   = [i \in Server |-> 0]
  /\ applied       = [i \in Server |-> <<>>]
  /\ identity      = [i \in Server |-> "Down"]
  /\ termTriggered = [i \in Server |-> 0]
  /\ queue         = [i \in Server |-> <<[to |-> "Follower", term |-> 0]>>]
  /\ timer         = [i \in Server |-> FALSE]

ServerTypeOK ==
  /\ currentTerm   \in [Server -> Nat]
  /\ votedFor      \in [Server -> Server \cup {Nil}]
  /\ entries       \in [Server -> Seq(Entry)]
  /\ commitIdx     \in [Server -> Nat]
  /\ lastApplied   \in [Server -> Nat]
  /\ applied       \in [Server -> Seq(Label)]
  /\ identity      \in [Server -> Identity]
  /\ termTriggered \in [Server -> Nat]
  /\ queue         \in [Server -> Seq(Event)]
  /\ timer         \in [Server -> BOOLEAN]

-----------------------------------------------------------------------------
\* IdentityTransformer::notify

\* The bug of letting through a second request for the same term.
FreshOrEqual(i, term) == termTriggered[i] = 0 \/ termTriggered[i] <= term

Fresh(i, term) == termTriggered[i] = 0 \/ termTriggered[i] < term

\* The queue once notify has seen the request, starting from q.
Notified(i, q, target, term) ==
  IF Fresh(i, term) THEN Append(q, [to |-> target, term |-> term]) ELSE q

\* termTriggered of every server after i's notify.
Triggered(i, term) ==
  [termTriggered EXCEPT ![i] = IF Fresh(i, term) THEN term ELSE @]

Notify(i, target, term) ==
  /\ queue' = [queue EXCEPT ![i] = Notified(i, @, target, term)]
  /\ termTriggered' = Triggered(i, term)

-----------------------------------------------------------------------------
\* What handlers do at their entry and at their exit

\* checkRpcTerm found the local term above the term of the message, ...
AheadOf(i, m) == currentTerm[i] > m.term

\* ... and lowered it to that.
CheckedTerm(i, m) == IF AheadOf(i, m) THEN m.term ELSE currentTerm[i]

\* The bug of leaving the entry at the commit index for later.
ReadyBelow(i, commit) ==
  IF commit > lastApplied[i] THEN commit - lastApplied[i] - 1 ELSE 0

\* applyReadyEntries: entries log[lastApplied+1 .. commit] go to the service.
Ready(i, commit) == IF commit > lastApplied[i] THEN commit - lastApplied[i] ELSE 0

\* The bug of handing over the last applied entry a second time.
ApplyAgain(i, log, commit) ==
  LET first == IF Ready(i, commit) = 0 THEN 1 ELSE 0 IN
  /\ lastApplied' = [lastApplied EXCEPT ![i] = @ + Ready(i, commit)]
  /\ applied' = [applied EXCEPT ![i] =
       @ \o [k \in 1..(Ready(i, commit) + 1 - first) |->
               RequestAt(log, lastApplied[i] + k - 1)]]

ApplyReadyEntries(i, log, commit) ==
  /\ lastApplied' = [lastApplied EXCEPT ![i] = @ + Ready(i, commit)]
  /\ applied' = [applied EXCEPT ![i] =
       @ \o [k \in 1..Ready(i, commit) |-> RequestAt(log, lastApplied[i] + k)]]

-----------------------------------------------------------------------------
\* RequestVote

VoteGreater(i, m) == m.term > CheckedTerm(i, m)

\* A request for the local term: the vote is free, and the log new enough.
CanVote(i, m) ==
  /\ m.term = CheckedTerm(i, m)
  /\ votedFor[i] \in {Nil, m.from}
  /\ UpToDate(entries[i], m.lastLogIdx, m.lastLogTerm)

Grants(i, m) == identity[i] # "Down" /\ (VoteGreater(i, m) \/ CanVote(i, m))

TermAfterVote(i, m) ==
  IF VoteGreater(i, m) THEN m.term ELSE CheckedTerm(i, m)

\* The Reply; a server that is Down answers InvalidTerm.
VoteAnswer(i, m) ==
  [from |-> m.from, to |-> i, sent |-> m.term,
   term |-> IF identity[i] = "Down" THEN 0 ELSE TermAfterVote(i, m),
   ok   |-> Grants(i, m)]

RPCRequestVote(i, m) ==
  IF identity[i] = "Down"
  THEN UNCHANGED serverVars
  ELSE /\ currentTerm' = [currentTerm EXCEPT ![i] = TermAfterVote(i, m)]
       /\ votedFor' = [votedFor EXCEPT ![i] = IF Grants(i, m) THEN m.from ELSE @]
       /\ timer' = [timer EXCEPT ![i] =
                      @ \/ (identity[i] = "Follower" /\ Grants(i, m))]
       /\ IF identity[i] # "Follower" /\ (AheadOf(i, m) \/ VoteGreater(i, m))
          THEN Notify(i, "Follower", m.term)
          ELSE UNCHANGED triggerVars
       /\ ApplyReadyEntries(i, entries[i], commitIdx[i])
       /\ UNCHANGED <<logVars, identity>>

-----------------------------------------------------------------------------
\* AppendEntries

\* IdentityFollower::Impl::appendEntries returns before anything else happens.
IgnoresAppend(i, m) == identity[i] = "Follower" /\ AheadOf(i, m)

Accepts(i, m) ==
  /\ identity[i] # "Down"
  /\ ~IgnoresAppend(i, m)
  /\ m.term >= CheckedTerm(i, m)
  /\ HasPrev(entries[i], m)

\* A candidate gives way to a leader of its term; both candidates and leaders
\* give way when checkRpcTerm finds their term too great.
StepsDown(i, m) ==
  \/ identity[i] = "Candidate" /\ m.term = currentTerm[i]
  \/ identity[i] # "Follower" /\ AheadOf(i, m)

\* The bug of taking the size of the log for the index of its last entry.
CommitOneShort(i, m, len) ==
  IF m.commitIdx > commitIdx[i] THEN Min({m.commitIdx, len - 1}) ELSE commitIdx[i]

\* The commit index after a message was accepted and the log has length len.
CommitAfter(i, m, len) ==
  IF m.commitIdx > commitIdx[i] THEN Min({m.commitIdx, len}) ELSE commitIdx[i]

AppendAnswer(i, m) ==
  [from |-> m.from, to |-> i, sent |-> Len(m.logEntries),
   term |-> IF identity[i] = "Down" THEN 0
            ELSE IF IgnoresAppend(i, m) THEN currentTerm[i]
            ELSE CheckedTerm(i, m),
   ok   |-> Accepts(i, m)]

RPCAppendEntries(i, m) ==
  IF identity[i] = "Down" \/ IgnoresAppend(i, m)
  THEN UNCHANGED serverVars
  ELSE LET log    == IF Accepts(i, m) THEN Merge(entries[i], m) ELSE entries[i]
           commit == IF Accepts(i, m) THEN CommitAfter(i, m, Len(log))
                                      ELSE commitIdx[i]
       IN  /\ currentTerm' = [currentTerm EXCEPT ![i] = CheckedTerm(i, m)]
           /\ entries' = [entries EXCEPT ![i] = log]
           /\ commitIdx' = [commitIdx EXCEPT ![i] = commit]
           /\ timer' = [timer EXCEPT ![i] = @ \/ identity[i] = "Follower"]
           /\ IF StepsDown(i, m)
              THEN Notify(i, "Follower", m.term)
              ELSE UNCHANGED triggerVars
           /\ ApplyReadyEntries(i, log, commit)
           /\ UNCHANGED <<votedFor, identity>>
=============================================================================
