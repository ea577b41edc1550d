------------------------------ MODULE Quintet ------------------------------
(***************************************************************************)
(* A cluster of quintet servers: the identities' own threads (the election *)
(* timer, the candidate's vote threads, the leader's append threads), the   *)
(* transformations that the event queue carries out, clients' AddLog calls, *)
(* Raft::Stop, and the calls in flight between servers.                     *)
(*                                                                         *)
(* A request or a reply that is lost, and a call that fails or runs into    *)
(* its deadline, is one that no further step takes.  A request whose caller *)
(* has given up may still be served: it stays behind, no longer live.       *)
(***************************************************************************)
EXTENDS IdentityBase, SequencesExt

VARIABLES
  phase,          \* the stage of Raft::Impl's life
  expiring,       \* the term that a timeout has read and not yet passed to notify
  votesReceived,  \* IdentityCandidate::Impl::votesReceived
  nextIdx,        \* IdentityLeader::Impl::FollowerNode::nextIdx
  matchIdx,       \* IdentityLeader::Impl::FollowerNode::matchIdx
  replicateNum,   \* IdentityLeader::Impl::logStates, without that of entry 0
  adding,         \* addLog has released entriesM and not yet taken logStatesM
  voteReqs,       \* RequestVote calls that were sent and not yet served
  voteReplies,    \* their replies, not yet taken by the calling thread
  appendReqs,     \* the same for AppendEntries
  appendReplies,
  calls,          \* the AddLog calls that clients may still make
  grants,         \* history: <<voter, candidate, term>> of every vote given
  since           \* history: the highest term a transformation was made for

candidateVars == <<expiring, votesReceived>>
leaderVars    == <<nextIdx, matchIdx, replicateNum, adding>>
voteCalls     == <<voteReqs, voteReplies>>
appendCalls   == <<appendReqs, appendReplies>>
vars == <<serverVars, phase, candidateVars, leaderVars, voteCalls, appendCalls,
          calls, grants, since>>

Init ==
  /\ InitServer
  /\ phase         = [i \in Server |-> "up"]
  /\ expiring      = [i \in Server |-> {}]
  /\ votesReceived = [i \in Server |-> 0]
  /\ nextIdx       = [i \in Server |-> [j \in Server |-> 1]]
  /\ matchIdx      = [i \in Server |-> [j \in Server |-> 0]]
  /\ replicateNum  = [i \in Server |-> <<>>]
  /\ adding        = [i \in Server |-> FALSE]
  /\ voteReqs      = {}
  /\ voteReplies   = {}
  /\ appendReqs    = {}
  /\ appendReplies = {}
  /\ calls         = Calls
  /\ grants        = {}
  /\ since         = [i \in Server |-> 0]

\* Every variable has its type: in particular no index of a leader's followers
\* falls to zero, and no event, message or entry is anything but one.
TypeOK ==
  /\ ServerTypeOK
  /\ phase         \in [Server -> Phase]
  /\ expiring      \in [Server -> SUBSET Nat]
  /\ votesReceived \in [Server -> Nat]
  /\ nextIdx       \in [Server -> [Server -> Nat \ {0}]]
  /\ matchIdx      \in [Server -> [Server -> Nat]]
  /\ replicateNum  \in [Server -> Seq(Nat)]
  /\ adding        \in [Server -> BOOLEAN]
  /\ voteReqs      \subseteq RequestVoteMessage
  /\ voteReplies   \subseteq VoteReply
  /\ appendReqs    \subseteq AppendEntriesMessage
  /\ appendReplies \subseteq AppendReply
  /\ calls         \in [Server -> [Request -> Nat]]
  /\ grants        \subseteq Server \X Server \X Nat
  /\ since         \in [Server -> Nat]

-----------------------------------------------------------------------------
\* Calls that are given up

\* Their requests are gone, except for some that have got so far that the
\* other side will serve them all the same.
Abandon(reqs, gone) ==
  {rest \in {(reqs \ gone) \cup {[m EXCEPT !.live = FALSE] : m \in kept} :
               kept \in SUBSET gone} :
     Cardinality({m \in rest : ~m.live}) <= MaxLate}

LiveCalls(reqs, i) == {m \in reqs : m.live /\ m.from = i}

CallsOf(replies, i) == {r \in replies : r.from = i}

-----------------------------------------------------------------------------
\* The election timer

\* A timeout reads the current term, ...
Expires(i) ==
  /\ timer[i] /\ phase[i] # "aborted"
  /\ currentTerm[i] < TermLimit[i] /\ Len(queue[i]) < MaxEvents
  /\ timer' = [timer EXCEPT ![i] = FALSE]
  /\ expiring' = [expiring EXCEPT ![i] = {currentTerm[i]}]
  /\ UNCHANGED <<currentTerm, votedFor, logVars, applyVars, identity, triggerVars, phase,
                 votesReceived, leaderVars, voteCalls, appendCalls, calls, grants, since>>

\* ... and asks for a candidacy in its name, whatever the term is by then.
NotifyTimeout(i) ==
  \E term \in expiring[i] :
    /\ expiring' = [expiring EXCEPT ![i] = {}]
    /\ Notify(i, "Candidate", term)
    /\ UNCHANGED <<currentTerm, votedFor, logVars, applyVars, identity, timer, phase,
                   votesReceived, leaderVars, voteCalls, appendCalls, calls, grants, since>>

\* stop and restart join the thread of the timer: a timeout that has begun ends first.
NoTimeoutBegun(i) == expiring[i] = {}

-----------------------------------------------------------------------------
\* Transformations: Raft::Impl::transform on the thread of the event queue

\* The event is taken from the queue and the old identity left: its timer
\* and its calls end, a leader forgets its followers.  rpc.pause does not wait
\* for an addLog between its two critical sections.
Leave(i, target) ==
  /\ phase[i] \in {"up", "draining"}
  /\ queue[i] # <<>> /\ Head(queue[i]).to = target
  /\ NoTimeoutBegun(i)
  /\ identity' = [identity EXCEPT ![i] = target]
  /\ since' = [since EXCEPT ![i] = Max({@, Head(queue[i]).term})]
  /\ voteReplies' = voteReplies \ CallsOf(voteReplies, i)
  /\ appendReplies' = appendReplies \ CallsOf(appendReplies, i)
  /\ appendReqs' \in Abandon(appendReqs, LiveCalls(appendReqs, i))
  /\ nextIdx' = [nextIdx EXCEPT ![i] = [j \in Server |-> 1]]
  /\ matchIdx' = [matchIdx EXCEPT ![i] = [j \in Server |-> 0]]
  /\ UNCHANGED <<logVars, applyVars, phase, adding, calls>>

\* ... with no event triggered on the way, as in every init but a candidate's.
LeaveQuietly(i, target) ==
  /\ Leave(i, target)
  /\ queue' = [queue EXCEPT ![i] = Tail(@)]
  /\ voteReqs' \in Abandon(voteReqs, LiveCalls(voteReqs, i))
  /\ UNCHANGED <<currentTerm, votedFor, termTriggered, candidateVars, grants>>

BecomeDown(i) ==
  /\ LeaveQuietly(i, "Down")
  /\ timer' = [timer EXCEPT ![i] = FALSE]
  /\ replicateNum' = [replicateNum EXCEPT ![i] = <<>>]

BecomeFollower(i) ==
  /\ LeaveQuietly(i, "Follower")
  /\ timer' = [timer EXCEPT ![i] = TRUE]
  /\ replicateNum' = [replicateNum EXCEPT ![i] = <<>>]

BecomeLeader(i) ==
  /\ LeaveQuietly(i, "Leader")
  /\ timer' = [timer EXCEPT ![i] = FALSE]
  /\ replicateNum' = [replicateNum EXCEPT ![i] = [k \in 1..Len(entries[i]) |-> 1]]

VoteRequest(i, j, term) ==
  [from |-> i, to |-> j, term |-> term, lastLogIdx |-> Len(entries[i]),
   lastLogTerm |-> TermAt(entries[i], Len(entries[i])), live |-> TRUE]

VotesAtStart(i) == 1

\* A new term, a vote for itself, a request to everybody else; alone in its
\* cluster it has won.
BecomeCandidate(i) ==
  LET term == currentTerm[i] + 1 IN
  /\ term <= TermLimit[i]
  /\ Leave(i, "Candidate") /\ UNCHANGED expiring
  /\ currentTerm' = [currentTerm EXCEPT ![i] = term]
  /\ votedFor' = [votedFor EXCEPT ![i] = i]
  /\ grants' = grants \cup {<<i, i, term>>}
  /\ votesReceived' = [votesReceived EXCEPT ![i] = VotesAtStart(i)]
  /\ IF Majority(VotesAtStart(i))
     THEN /\ queue' = [queue EXCEPT ![i] = Notified(i, Tail(@), "Leader", term)]
          /\ termTriggered' = Triggered(i, term)
     ELSE /\ queue' = [queue EXCEPT ![i] = Tail(@)]
          /\ UNCHANGED termTriggered
  /\ \E rest \in Abandon(voteReqs, LiveCalls(voteReqs, i)) :
       voteReqs' = rest \cup {VoteRequest(i, j, term) : j \in Server \ {i}}
  /\ timer' = [timer EXCEPT ![i] = TRUE]
  /\ replicateNum' = [replicateNum EXCEPT ![i] = <<>>]

-----------------------------------------------------------------------------
\* RequestVote calls

\* RPC is served, and no handler holds rpcing.
HandlerFree(i) == phase[i] = "up" /\ ~adding[i]

ServeRequestVote(m) ==
  LET i == m.to IN
  /\ HandlerFree(i)
  /\ identity[i] = "Follower" /\ Grants(i, m) => NoTimeoutBegun(i)
  /\ RPCRequestVote(i, m)
  /\ grants' = IF Grants(i, m) THEN grants \cup {<<i, m.from, m.term>>} ELSE grants
  /\ voteReqs' = voteReqs \ {m}
  /\ voteReplies' = IF m.live THEN voteReplies \cup {VoteAnswer(i, m)} ELSE voteReplies
  /\ UNCHANGED <<phase, candidateVars, leaderVars, appendCalls, calls, since>>

\* The bug of counting every answer as a vote.
CountsEveryAnswer(r) == r.term = r.sent

CountsAsVote(r) == r.term = r.sent /\ r.ok

\* A vote thread of candidate r.from gets its reply.
TakeVoteReply(r) ==
  LET i == r.from
      votes == votesReceived[i] + (IF CountsAsVote(r) THEN 1 ELSE 0)
  IN
  /\ votesReceived' = [votesReceived EXCEPT ![i] = votes]
  /\ IF CountsAsVote(r) /\ Majority(votes)
     THEN Notify(i, "Leader", r.sent)
     ELSE UNCHANGED triggerVars
  /\ voteReplies' = voteReplies \ {r}
  /\ UNCHANGED <<currentTerm, votedFor, logVars, applyVars, identity, timer, phase, expiring,
                 leaderVars, voteReqs, appendCalls, calls, grants, since>>

-----------------------------------------------------------------------------
\* AppendEntries calls

\* An exception that leaves a thread, or a wild read, ends the process.
Abort(i) ==
  /\ phase' = [phase EXCEPT ![i] = "aborted"]
  /\ identity' = [identity EXCEPT ![i] = "Down"]
  /\ timer' = [timer EXCEPT ![i] = FALSE]
  /\ expiring' = [expiring EXCEPT ![i] = {}]
  /\ queue' = [queue EXCEPT ![i] = <<>>]
  /\ nextIdx' = [nextIdx EXCEPT ![i] = [j \in Server |-> 1]]
  /\ matchIdx' = [matchIdx EXCEPT ![i] = [j \in Server |-> 0]]
  /\ replicateNum' = [replicateNum EXCEPT ![i] = <<>>]
  /\ adding' = [adding EXCEPT ![i] = FALSE]
  /\ appendReqs' \in Abandon(appendReqs, LiveCalls(appendReqs, i))
  /\ appendReplies' = appendReplies \ CallsOf(appendReplies, i)
  /\ UNCHANGED <<currentTerm, votedFor, logVars, applyVars, termTriggered,
                 votesReceived, voteCalls, calls, grants, since>>

\* The bug of leaving out the first entry the follower needs.
EntriesBeyond(log, n) == SubSeq(log, n + 1, Len(log))

EntriesFrom(log, n) == SubSeq(log, n, Len(log))

\* createAppendEntriesMessage
AppendRequest(i, j) ==
  LET n == nextIdx[i][j] IN
  [from |-> i, to |-> j, term |-> currentTerm[i], prevLogIdx |-> n - 1,
   prevLogTerm |-> TermAt(entries[i], n - 1),
   logEntries  |-> EntriesFrom(entries[i], n),
   commitIdx   |-> commitIdx[i], live |-> TRUE]

\* The append thread of leader i for follower j sends a message: after a
\* heartbeat, which has ended the thread before it, after an error or after
\* a rejection.
SendAppendEntries(i, j) ==
  /\ identity[i] = "Leader" /\ i # j
  /\ nextIdx[i][j] - 1 <= Len(entries[i])
  /\ \E rest \in Abandon(appendReqs, {m \in LiveCalls(appendReqs, i) : m.to = j}) :
       appendReqs' = rest \cup {AppendRequest(i, j)}
  /\ appendReplies' = {r \in appendReplies : ~(r.from = i /\ r.to = j)}
  /\ UNCHANGED <<serverVars, phase, candidateVars, leaderVars, voteCalls, calls,
                 grants, since>>

\* entries.at(prevLogIdx) throws: the log was cut below nextIdx.
SendAppendEntriesThrows(i, j) ==
  /\ identity[i] = "Leader" /\ i # j
  /\ nextIdx[i][j] - 1 > Len(entries[i])
  /\ Abort(i)

ServeAppendEntries(m) ==
  LET i == m.to IN
  /\ HandlerFree(i)
  /\ identity[i] = "Follower" /\ ~IgnoresAppend(i, m) => NoTimeoutBegun(i)
  /\ RPCAppendEntries(i, m)
  /\ appendReqs' = appendReqs \ {m}
  /\ appendReplies' = IF m.live THEN appendReplies \cup {AppendAnswer(i, m)}
                                ELSE appendReplies
  /\ UNCHANGED <<phase, candidateVars, leaderVars, voteCalls, calls, grants, since>>

\* The entries that one more replica makes committed.
Counted(i, r) ==
  {k \in 1..Len(replicateNum[i]) :
     k > matchIdx[i][r.to] /\ Majority(replicateNum[i][k] + 1)}

\* The bug of taking nextIdx itself as the index of the last replicated entry.
MatchNextIdx(i, r) == nextIdx[i][r.to] + r.sent

MatchAfter(i, r) == nextIdx[i][r.to] + r.sent - 1

\* The append thread learns that the follower has accepted its message.
TakeAppendSuccess(r) ==
  LET i == r.from IN
  /\ r.ok
  /\ \A k \in 1..Len(replicateNum[i]) : replicateNum[i][k] < MaxCount
  /\ nextIdx' = [nextIdx EXCEPT ![i][r.to] = @ + r.sent]
  /\ matchIdx' = [matchIdx EXCEPT ![i][r.to] = MatchAfter(i, r)]
  /\ replicateNum' = [replicateNum EXCEPT ![i] =
       [k \in 1..Len(replicateNum[i]) |->
          IF k > matchIdx[i][r.to] THEN @[k] + 1 ELSE @[k]]]
  /\ \E c \in {commitIdx[i]} \cup Counted(i, r) :
       /\ \A k \in {commitIdx[i]} \cup Counted(i, r) : k <= c
       /\ commitIdx' = [commitIdx EXCEPT ![i] = c]
       /\ ApplyReadyEntries(i, entries[i], c)
  /\ appendReplies' = appendReplies \ {r}
  /\ UNCHANGED <<currentTerm, votedFor, entries, identity, triggerVars, timer, phase,
                 candidateVars, adding, voteCalls, appendReqs, calls, grants, since>>

\* The same, and copying the committed entries runs past the end of the log.
TakeAppendSuccessCrashes(r) ==
  /\ r.ok
  /\ \E k \in Counted(r.from, r) : k > Len(entries[r.from]) /\ k > commitIdx[r.from]
  /\ Abort(r.from)

\* The follower answers with a greater term.
TakeAppendGreaterTerm(r) ==
  LET i == r.from IN
  /\ ~r.ok /\ r.term > currentTerm[i]
  /\ currentTerm' = [currentTerm EXCEPT ![i] = r.term]
  /\ Notify(i, "Follower", r.term)
  /\ appendReplies' = appendReplies \ {r}
  /\ UNCHANGED <<votedFor, logVars, applyVars, identity, timer, phase, candidateVars,
                 leaderVars, voteCalls, appendReqs, calls, grants, since>>

\* The bug of backing off by two, which passes over the first index.
BackedOffTwice(n) == IF n = 1 THEN n ELSE n - 2

BackedOff(n) == IF n = 1 THEN n ELSE n - 1

\* The follower lacks the entry before: the next message starts one earlier.
TakeAppendRejection(r) ==
  LET i == r.from IN
  /\ ~r.ok /\ r.term <= currentTerm[i]
  /\ nextIdx' = [nextIdx EXCEPT ![i][r.to] = BackedOff(@)]
  /\ appendReplies' = appendReplies \ {r}
  /\ UNCHANGED <<serverVars, phase, candidateVars, matchIdx, replicateNum, adding,
                 voteCalls, appendReqs, calls, grants, since>>

-----------------------------------------------------------------------------
\* Calls from outside the cluster

\* The bug of logging every call, the repetition of an earlier one too.
NotLogged(log, req) == TRUE

Unlogged(log, req) == \A k \in 0..Len(log) : RequestAt(log, k) # req

\* A client's AddLog reaches a leader, which logs the request unless it has it
\* already.  Any other server refuses the call, and the client tries again.
AddLog(i, req) ==
  /\ HandlerFree(i) /\ identity[i] = "Leader"
  /\ calls[i][req] > 0
  /\ calls' = [calls EXCEPT ![i][req] = @ - 1]
  /\ IF Unlogged(entries[i], req)
     THEN /\ entries' = [entries EXCEPT ![i] =
                           Append(@, [term |-> currentTerm[i], req |-> req])]
          /\ adding' = [adding EXCEPT ![i] = TRUE]
     ELSE UNCHANGED <<entries, adding>>
  /\ UNCHANGED <<currentTerm, votedFor, commitIdx, applyVars, identity, triggerVars,
                 timer, phase, candidateVars, nextIdx, matchIdx, replicateNum,
                 voteCalls, appendCalls, grants, since>>

\* The second critical section of addLog: the entry gets its LogState.
AddLogState(i) ==
  /\ adding[i]
  /\ adding' = [adding EXCEPT ![i] = FALSE]
  /\ replicateNum' = [replicateNum EXCEPT ![i] = Append(@, 1)]
  /\ UNCHANGED <<serverVars, phase, candidateVars, nextIdx, matchIdx, voteCalls,
                 appendCalls, calls, grants, since>>

\* Raft::Stop, once the handlers have returned: no RPC is served any more, and
\* the queue is to end with Down.
Stop(i) ==
  /\ i \in Stoppable /\ HandlerFree(i)
  /\ phase' = [phase EXCEPT ![i] = "draining"]
  /\ queue' = [queue EXCEPT ![i] = Append(@, [to |-> "Down", term |-> 0])]
  /\ UNCHANGED <<currentTerm, votedFor, logVars, applyVars, identity, termTriggered,
                 timer, candidateVars, leaderVars, voteCalls, appendCalls, calls,
                 grants, since>>

\* EventQueue::stop has seen the queue empty and ended its thread.
Stopped(i) ==
  /\ phase[i] = "draining" /\ queue[i] = <<>>
  /\ phase' = [phase EXCEPT ![i] = "stopped"]
  /\ UNCHANGED <<serverVars, candidateVars, leaderVars, voteCalls, appendCalls,
                 calls, grants, since>>

-----------------------------------------------------------------------------
Transform(i) ==
  \/ BecomeDown(i)
  \/ BecomeFollower(i)
  \/ BecomeCandidate(i)
  \/ BecomeLeader(i)

TakeAppendReply(r) ==
  \/ TakeAppendSuccess(r)
  \/ TakeAppendSuccessCrashes(r)
  \/ TakeAppendGreaterTerm(r)
  \/ TakeAppendRejection(r)

Next ==
  \/ \E i \in Server : Expires(i) \/ NotifyTimeout(i) \/ Transform(i)
  \/ \E i \in Server : AddLogState(i) \/ Stop(i) \/ Stopped(i)
  \/ \E m \in voteReqs : ServeRequestVote(m)
  \/ \E r \in voteReplies : TakeVoteReply(r)
  \/ \E i, j \in Server : SendAppendEntries(i, j) \/ SendAppendEntriesThrows(i, j)
  \/ \E m \in appendReqs : ServeAppendEntries(m)
  \/ \E r \in appendReplies : TakeAppendReply(r)
  \/ \E i \in Server, req \in Request : AddLog(i, req)

Spec == Init /\ [][Next]_vars

\* Only servers that may stand for election ever lead.
Contender == {i \in Server : TermLimit[i] > 0}

\* The event queue runs what it holds, and a handler goes on.  A leader's
\* heartbeat starts a new call to every follower each half election timeout,
\* whatever has become of the one before; of calls made over and over one gets
\* through, and so does one of their replies.
Fairness ==
  /\ \A i \in Server :
       WF_vars(NotifyTimeout(i)) /\ WF_vars(Transform(i)) /\ WF_vars(AddLogState(i))
  /\ \A i \in Contender : \A j \in Server \ {i} :
       /\ WF_vars(SendAppendEntries(i, j))
       /\ SF_vars(\E m \in appendReqs :
                    m.live /\ m.from = i /\ m.to = j /\ ServeAppendEntries(m))
       /\ SF_vars(\E r \in appendReplies :
                    r.from = i /\ r.to = j /\ TakeAppendReply(r))

FairSpec == Spec /\ Fairness

-----------------------------------------------------------------------------
\* Properties of every execution

\* The terms of the events in q, save those of AsyncRun and Stop, grow from
\* event to event and exceed last.
InOrder(q, last) ==
  \A k \in 1..Len(q) :
    q[k].term # 0 =>
      last < q[k].term /\ \A n \in 1..(k - 1) : q[n].term < q[k].term

\* The transformations of a server, the last one made and those queued, are
\* for ever greater terms: IdentityTransformer keeps the promise of
\* IdentityCandidate::Impl::requestVotes that of all the votes beyond the
\* majority, and of a vote that races a timeout or a step down, only one
\* leads to a transformation.  AsyncRun and Stop, at term 0, are not counted.
OneTransformationPerTerm == \A i \in Server : InOrder(queue[i], since[i])

Voters(i, term) == {v \in Server : <<v, i, term>> \in grants}

\* A server that leads, or that is about to, was voted for by a majority in
\* the term it was elected for, however votes, timeouts and step downs of
\* earlier candidacies were interleaved with that candidacy.
LeaderHasQuorum ==
  \A i \in Server :
    /\ \A k \in 1..Len(queue[i]) :
         queue[i][k].to = "Leader" => Majority(Cardinality(Voters(i, queue[i][k].term)))
    /\ identity[i] = "Leader" => Majority(Cardinality(Voters(i, since[i])))

\* Between handlers nothing committed waits to be applied, even where a log
\* was cut below the commit index: each exit runs applyReadyEntries.
CommittedIsApplied ==
  \A i \in Server : commitIdx[i] <= lastApplied[i] /\ Len(applied[i]) = lastApplied[i]

-----------------------------------------------------------------------------
\* Properties of executions in which one election timer only ever expires

Comparable(s, t) == IsPrefix(s, t) \/ IsPrefix(t, s)

\* Logs never diverge: of two servers one has a prefix of the log of the other,
\* whatever AppendEntries are lost, overtaken or served after their thread
\* has given up.
LogsAgree == \A i, j \in Server : Comparable(entries[i], entries[j])

\* State machines never diverge: the services of two servers were handed the
\* same requests in the same order, and none of them twice.
AppliedAgree ==
  /\ \A i, j \in Server : Comparable(applied[i], applied[j])
  /\ \A i \in Server : \A k, n \in 1..Len(applied[i]) :
       applied[i][k] = applied[i][n] => k = n

\* What a leader believes replicated is replicated: the follower has that many
\* entries, and they are the leader's.
MatchIdxSound ==
  \A i, j \in Server :
    identity[i] = "Leader" /\ i # j =>
      /\ matchIdx[i][j] <= Len(entries[i]) /\ matchIdx[i][j] <= Len(entries[j])
      /\ \A k \in 1..matchIdx[i][j] : entries[i][k] = entries[j][k]

\* No server loses an entry, committed or not: an AppendEntries overtaken by a
\* later one, or served after its thread has given up, removes nothing.
LogsOnlyGrow == [][\A i \in Server : IsPrefix(entries[i], entries'[i])]_vars

\* The log of a server that has no fewer entries than any other.
LongestLog ==
  entries[CHOOSE i \in Server : \A j \in Server : Len(entries[j]) <= Len(entries[i])]

Labels(log) == [k \in 1..Len(log) |-> log[k].req]

\* The cluster is one log: what any service is handed are the first requests of
\* the longest log, which gets each request once and never loses one.
Cluster == INSTANCE ReplicatedLog WITH log <- Labels(LongestLog), handed <- applied

ImplementsReplicatedLog == Cluster!Spec

\* A leader has not counted all the followers that it knows to have some entry: a
\* reply was taken while the entry had no LogState.
Undercounted(i) ==
  \E k \in 1..Len(replicateNum[i]) :
    replicateNum[i][k] < 1 + Cardinality({j \in Server : matchIdx[i][j] >= k})

\* Every request that has got into a leader's log is in the end applied by the
\* service of every server that is not stopped, unless a reply came in between
\* the two critical sections of addLog and the entry waits to be committed.
LoggedIsApplied ==
  \A req \in Request :
    (\E i \in Server : identity[i] = "Leader" /\ ~Unlogged(entries[i], req))
      ~> \/ \A j \in Server : phase[j] # "up" \/ req \in ToSet(applied[j])
         \/ \E i \in Server : Undercounted(i)

-----------------------------------------------------------------------------
\* What the documentation and the tests say of the program, and the code does
\* not keep

\* Of the servers that lead no two were elected in the same term.
ElectionSafety ==
  \A i, j \in Server :
    identity[i] = "Leader" /\ identity[j] = "Leader" /\ since[i] = since[j] => i = j

\* ... which it is in an execution that never lowers a term (see CauseProofs).
TermsRise == \A i \in Server : currentTerm[i] <= currentTerm'[i]

\* A server without a leader to follow, with no transformation to come, waits
\* for its election timer, or is about to ask for one.
TimeoutAhead ==
  \A i \in Server :
    identity[i] \in {"Follower", "Candidate"} /\ phase[i] = "up" /\ queue[i] = <<>>
      => timer[i] \/ expiring[i] # {}

\* ... as in an execution in which notify lets every timeout through (see CauseProofs).
TimeoutsPass ==
  \A i \in Server : NotifyTimeout(i) => \A term \in expiring[i] : Fresh(i, term)

\* A majority has in its log what a service was handed.
AppliedIsReplicated ==
  \A i \in Server : \A k \in 1..Len(applied[i]) :
    Majority(Cardinality({j \in Server : RequestAt(entries[j], k) = applied[i][k]}))

\* ... as in an execution in which no reply is counted for an entry that was not
\* in the message it answers (see CauseProofs).
CountsWhatWasSent ==
  \A r \in appendReplies :
    TakeAppendSuccess(r) => Len(replicateNum[r.from]) <= MatchAfter(r.from, r)

\* When Stop has returned the server is down.
StopIsFinal == \A i \in Server : phase[i] = "stopped" => identity[i] = "Down"

\* ... which it is as long as the event of Stop stays the last in the queue (see
\* CauseProofs).
DownStaysLast ==
  \A i \in Server :
    phase[i] = "draining" /\ queue'[i] # <<>> =>
      queue[i] # <<>> /\ Last(queue'[i]) = Last(queue[i])
=============================================================================
