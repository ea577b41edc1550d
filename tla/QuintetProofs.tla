--------------------------- MODULE QuintetProofs ---------------------------
(***************************************************************************)
(* Theorems about Quintet, for every cluster, every set of requests and     *)
(* every bound.                                                             *)
(***************************************************************************)
EXTENDS Quintet, FiniteSetTheorems, SequenceTheorems, TLAPS

-----------------------------------------------------------------------------
\* Types of what the handlers compute

\* Requests left behind by calls that are given up are requests.
LEMMA AbandonVotes ==
  ASSUME NEW reqs \in SUBSET RequestVoteMessage, NEW gone \in SUBSET reqs,
         NEW rest \in Abandon(reqs, gone)
  PROVE  rest \subseteq RequestVoteMessage
<1>1. PICK kept \in SUBSET gone :
         rest = (reqs \ gone) \cup {[m EXCEPT !.live = FALSE] : m \in kept}
  BY DEF Abandon
<1>2. ASSUME NEW m \in RequestVoteMessage
      PROVE  [m EXCEPT !.live = FALSE] \in RequestVoteMessage
  BY DEF RequestVoteMessage
<1> QED BY <1>1, <1>2

\* The same for AppendEntries calls.
LEMMA AbandonAppends ==
  ASSUME NEW reqs \in SUBSET AppendEntriesMessage, NEW gone \in SUBSET reqs,
         NEW rest \in Abandon(reqs, gone)
  PROVE  rest \subseteq AppendEntriesMessage
<1>1. PICK kept \in SUBSET gone :
         rest = (reqs \ gone) \cup {[m EXCEPT !.live = FALSE] : m \in kept}
  BY DEF Abandon
<1>2. ASSUME NEW m \in AppendEntriesMessage
      PROVE  [m EXCEPT !.live = FALSE] \in AppendEntriesMessage
  BY DEF AppendEntriesMessage
<1> QED BY <1>1, <1>2

\* Merging a message into a log that has the entry before it gives a log.
LEMMA MergeType ==
  ASSUME NEW log \in Seq(Entry), NEW m \in AppendEntriesMessage, HasPrev(log, m)
  PROVE  Merge(log, m) \in Seq(Entry)
<1> DEFINE new(k) == IF Skips(log, m, k) THEN log[m.prevLogIdx + k] ELSE m.logEntries[k]
<1>1. m.logEntries \in Seq(Entry) /\ m.prevLogIdx \in Nat /\ m.prevLogIdx <= Len(log)
  BY DEF AppendEntriesMessage, HasPrev
<1>2. ASSUME NEW k \in 1..Len(m.logEntries) PROVE new(k) \in Entry
  <2>1. CASE Skips(log, m, k)
    <3>1. SameTerm(log, m, k) BY <2>1, <1>1 DEF Skips
    <3>2. m.prevLogIdx + k \in 1..Len(log) BY <3>1, <1>1 DEF SameTerm
    <3> QED BY <2>1, <3>2
  <2>2. CASE ~Skips(log, m, k)
    BY <2>2, <1>1
  <2> QED BY <2>1, <2>2
<1>3. [k \in 1..Len(m.logEntries) |-> new(k)] \in Seq(Entry)
  BY <1>1, <1>2
<1>4. SubSeq(log, 1, m.prevLogIdx) \in Seq(Entry)
  BY <1>1
<1> QED
  BY <1>3, <1>4 DEF Merge

\* The smaller of two numbers is one of them.
LEMMA MinOfTwo ==
  ASSUME NEW a \in Int, NEW b \in Int
  PROVE  Min({a, b}) \in {a, b} /\ Min({a, b}) <= a /\ Min({a, b}) <= b
<1>1. \E x \in {a, b} : \A y \in {a, b} : x <= y
  BY a <= b \/ b <= a
<1> QED BY <1>1 DEF Min

\* The greater of two numbers is one of them.
LEMMA MaxOfTwo ==
  ASSUME NEW a \in Int, NEW b \in Int
  PROVE  Max({a, b}) \in {a, b} /\ Max({a, b}) >= a /\ Max({a, b}) >= b
<1>1. \E x \in {a, b} : \A y \in {a, b} : x >= y
  BY a <= b \/ b <= a
<1> QED BY <1>1 DEF Max

\* The term of an entry, entry 0 included, is a term.
LEMMA TermAtType ==
  ASSUME NEW log \in Seq(Entry), NEW k \in 0..Len(log)
  PROVE  TermAt(log, k) \in Nat
<1>1. k # 0 => log[k] \in Entry OBVIOUS
<1> QED BY <1>1 DEF TermAt, Entry

\* Whatever index is read, inside the log or beyond it, gives a label.
LEMMA RequestAtType ==
  ASSUME NEW log \in Seq(Entry), NEW k \in Int
  PROVE  RequestAt(log, k) \in Label
<1>1. k \in 1..Len(log) => log[k] \in Entry OBVIOUS
<1> QED BY <1>1 DEF RequestAt, Entry, Label

\* applyReadyEntries hands over labels and counts them.
LEMMA ApplyType ==
  ASSUME ServerTypeOK, NEW i \in Server, NEW log \in Seq(Entry), NEW commit \in Nat,
         ApplyReadyEntries(i, log, commit)
  PROVE  /\ lastApplied' \in [Server -> Nat]
         /\ applied' \in [Server -> Seq(Label)]
<1>1. Ready(i, commit) \in Nat
  BY DEF Ready, ServerTypeOK
<1> DEFINE new == [k \in 1..Ready(i, commit) |-> RequestAt(log, lastApplied[i] + k)]
<1>2. \A k \in 1..Ready(i, commit) : RequestAt(log, lastApplied[i] + k) \in Label
  BY <1>1, RequestAtType DEF ServerTypeOK
<1>3. new \in Seq(Label)
  BY <1>1, <1>2
<1>4. applied[i] \o new \in Seq(Label)
  <2> HIDE DEF new
  <2> QED BY <1>3 DEF ServerTypeOK
<1>5. lastApplied' \in [Server -> Nat]
  BY <1>1 DEF ApplyReadyEntries, ServerTypeOK
<1>6. applied' = [applied EXCEPT ![i] = applied[i] \o new]
  BY DEF ApplyReadyEntries
<1> HIDE DEF new
<1> QED
  BY <1>4, <1>5, <1>6 DEF ServerTypeOK

\* notify leaves queues of events and terms.
LEMMA NotifyType ==
  ASSUME ServerTypeOK, NEW i \in Server, NEW target \in Identity, NEW term \in Nat,
         Notify(i, target, term)
  PROVE  queue' \in [Server -> Seq(Event)] /\ termTriggered' \in [Server -> Nat]
<1>1. [to |-> target, term |-> term] \in Event
  BY DEF Event
<1>2. Append(queue[i], [to |-> target, term |-> term]) \in Seq(Event)
  BY <1>1, AppendProperties DEF ServerTypeOK
<1>3. Notified(i, queue[i], target, term) \in Seq(Event)
  BY <1>2 DEF Notified, ServerTypeOK
<1>4. queue' \in [Server -> Seq(Event)]
  BY <1>3 DEF Notify, ServerTypeOK
<1>5. termTriggered' \in [Server -> Nat]
  BY DEF Notify, Triggered, ServerTypeOK
<1> QED BY <1>4, <1>5

-----------------------------------------------------------------------------
\* Types through the handlers

\* The RequestVote handlers keep the types of ServerState and answer with a Reply.
LEMMA RequestVoteType ==
  ASSUME ServerTypeOK, NEW m \in RequestVoteMessage, RPCRequestVote(m.to, m)
  PROVE  ServerTypeOK' /\ VoteAnswer(m.to, m) \in VoteReply
<1> DEFINE i == m.to
<1>1. /\ i \in Server /\ m.from \in Server /\ m.term \in Nat
      /\ m.lastLogIdx \in Nat /\ m.lastLogTerm \in Nat
  BY DEF RequestVoteMessage
<1>2. TermAfterVote(i, m) \in Nat /\ Grants(i, m) \in BOOLEAN
  BY <1>1 DEF TermAfterVote, CheckedTerm, Grants, VoteGreater, CanVote, ServerTypeOK
<1>3. VoteAnswer(i, m) \in VoteReply
  BY <1>1, <1>2 DEF VoteAnswer, VoteReply
<1>4. CASE identity[i] = "Down"
  BY <1>3, <1>4 DEF RPCRequestVote, serverVars, logVars, applyVars, triggerVars, ServerTypeOK
<1>5. CASE identity[i] # "Down"
  <2> HIDE DEF i
  <2>1. /\ currentTerm' = [currentTerm EXCEPT ![i] = TermAfterVote(i, m)]
        /\ votedFor' = [votedFor EXCEPT ![i] = IF Grants(i, m) THEN m.from ELSE @]
        /\ timer' = [timer EXCEPT ![i] = @ \/ (identity[i] = "Follower" /\ Grants(i, m))]
        /\ \/ Notify(i, "Follower", m.term)
           \/ UNCHANGED triggerVars
        /\ ApplyReadyEntries(i, entries[i], commitIdx[i])
        /\ UNCHANGED <<logVars, identity>>
    BY <1>5 DEF RPCRequestVote, i
  <2>2. queue' \in [Server -> Seq(Event)] /\ termTriggered' \in [Server -> Nat]
    BY <2>1, <1>1, NotifyType DEF triggerVars, ServerTypeOK, Identity
  <2>3. lastApplied' \in [Server -> Nat] /\ applied' \in [Server -> Seq(Label)]
    BY <2>1, <1>1, ApplyType DEF ServerTypeOK
  <2>4. currentTerm' \in [Server -> Nat] /\ votedFor' \in [Server -> Server \cup {Nil}]
    BY <2>1, <1>1, <1>2 DEF ServerTypeOK
  <2>5. timer' \in [Server -> BOOLEAN]
    BY <2>1, <1>1, <1>2, Zenon DEF ServerTypeOK
  <2> QED BY <2>1, <2>2, <2>3, <2>4, <2>5, <1>3 DEF ServerTypeOK, logVars, i
<1> QED BY <1>4, <1>5

\* The AppendEntries handlers do, too.
LEMMA AppendEntriesType ==
  ASSUME ServerTypeOK, NEW m \in AppendEntriesMessage, RPCAppendEntries(m.to, m)
  PROVE  ServerTypeOK' /\ AppendAnswer(m.to, m) \in AppendReply
<1> DEFINE i == m.to
<1>1. /\ i \in Server /\ m.from \in Server /\ m.term \in Nat
      /\ m.commitIdx \in Nat /\ m.logEntries \in Seq(Entry)
  BY DEF AppendEntriesMessage
<1>2. CheckedTerm(i, m) \in Nat /\ Accepts(i, m) \in BOOLEAN
  BY <1>1 DEF CheckedTerm, Accepts, ServerTypeOK
<1>3. AppendAnswer(i, m) \in AppendReply
  <2>1. currentTerm[i] \in Nat BY <1>1 DEF ServerTypeOK
  <2>2. Len(m.logEntries) \in Nat BY <1>1, LenProperties
  <2> QED BY <1>1, <1>2, <2>1, <2>2 DEF AppendAnswer, AppendReply
<1>4. CASE identity[i] = "Down" \/ IgnoresAppend(i, m)
  BY <1>3, <1>4
  DEF RPCAppendEntries, serverVars, logVars, applyVars, triggerVars, ServerTypeOK
<1>5. CASE ~(identity[i] = "Down" \/ IgnoresAppend(i, m))
  <2> HIDE DEF i
  <2> DEFINE log    == IF Accepts(i, m) THEN Merge(entries[i], m) ELSE entries[i]
             commit == IF Accepts(i, m) THEN CommitAfter(i, m, Len(log))
                                        ELSE commitIdx[i]
  <2>1. /\ currentTerm' = [currentTerm EXCEPT ![i] = CheckedTerm(i, m)]
        /\ entries' = [entries EXCEPT ![i] = log]
        /\ commitIdx' = [commitIdx EXCEPT ![i] = commit]
        /\ timer' = [timer EXCEPT ![i] = @ \/ identity[i] = "Follower"]
        /\ \/ Notify(i, "Follower", m.term)
           \/ UNCHANGED triggerVars
        /\ ApplyReadyEntries(i, log, commit)
        /\ UNCHANGED <<votedFor, identity>>
    BY <1>5 DEF RPCAppendEntries, i
  <2>2. log \in Seq(Entry)
    BY <1>1, MergeType DEF Accepts, ServerTypeOK
  <2>3. commit \in Nat
    <3>1. Len(log) \in Nat BY <2>2
    <3> HIDE DEF log
    <3>2. Min({m.commitIdx, Len(log)}) \in {m.commitIdx, Len(log)}
      <4> DEFINE a == m.commitIdx
                 b == Len(log)
      <4>1. a \in Int /\ b \in Int BY <3>1, <1>1
      <4> HIDE DEF a, b
      <4>2. Min({a, b}) \in {a, b} BY <4>1, MinOfTwo, Zenon
      <4> QED BY <4>2 DEF a, b
    <3>3. Min({m.commitIdx, Len(log)}) \in Nat
      BY <3>1, <3>2, <1>1
    <3>4. CommitAfter(i, m, Len(log)) \in Nat
      BY <3>1, <3>3, <1>1 DEF CommitAfter, ServerTypeOK
    <3> QED BY <3>4, <1>1 DEF ServerTypeOK
  <2> HIDE DEF log, commit
  <2>4. queue' \in [Server -> Seq(Event)] /\ termTriggered' \in [Server -> Nat]
    BY <2>1, <1>1, NotifyType DEF triggerVars, ServerTypeOK, Identity
  <2>5. lastApplied' \in [Server -> Nat] /\ applied' \in [Server -> Seq(Label)]
    BY <2>1, <2>2, <2>3, <1>1, ApplyType
  <2>6. timer' \in [Server -> BOOLEAN]
    BY <2>1, <1>1, Zenon DEF ServerTypeOK
  <2> QED BY <2>1, <2>2, <2>3, <2>4, <2>5, <2>6, <1>1, <1>2, <1>3 DEF ServerTypeOK, i
<1> QED BY <1>4, <1>5

-----------------------------------------------------------------------------
\* Types through the steps of the cluster

\* The message of requestVotes is one.
LEMMA VoteRequestType ==
  ASSUME ServerTypeOK, NEW i \in Server, NEW j \in Server, NEW term \in Nat
  PROVE  VoteRequest(i, j, term) \in RequestVoteMessage
<1>1. Len(entries[i]) \in Nat /\ TermAt(entries[i], Len(entries[i])) \in Nat
  BY TermAtType DEF ServerTypeOK
<1> QED BY <1>1 DEF VoteRequest, RequestVoteMessage

\* So is that of createAppendEntriesMessage, when it does not throw.
LEMMA AppendRequestType ==
  ASSUME TypeOK, NEW i \in Server, NEW j \in Server,
         nextIdx[i][j] - 1 <= Len(entries[i])
  PROVE  AppendRequest(i, j) \in AppendEntriesMessage
<1>1. nextIdx[i][j] \in Nat \ {0} /\ entries[i] \in Seq(Entry)
  BY DEF TypeOK, ServerTypeOK
<1>2. TermAt(entries[i], nextIdx[i][j] - 1) \in Nat
  BY <1>1, TermAtType
<1>3. EntriesFrom(entries[i], nextIdx[i][j]) \in Seq(Entry)
  BY <1>1, SubSeqProperties DEF EntriesFrom
<1>4. currentTerm[i] \in Nat /\ commitIdx[i] \in Nat
  BY DEF TypeOK, ServerTypeOK
<1>5. nextIdx[i][j] - 1 \in Nat
  BY <1>1
<1> QED
  BY <1>2, <1>3, <1>4, <1>5 DEF AppendRequest, AppendEntriesMessage

\* Leaving an identity and entering the next, but for what init does.
LEMMA LeaveType ==
  ASSUME TypeOK, NEW i \in Server, NEW target \in Identity, Leave(i, target)
  PROVE  /\ identity' \in [Server -> Identity]
         /\ since' \in [Server -> Nat]
         /\ voteReplies' \subseteq VoteReply
         /\ appendReplies' \subseteq AppendReply
         /\ appendReqs' \subseteq AppendEntriesMessage
         /\ nextIdx' \in [Server -> [Server -> Nat \ {0}]]
         /\ matchIdx' \in [Server -> [Server -> Nat]]
         /\ adding' \in [Server -> BOOLEAN]
         /\ Tail(queue[i]) \in Seq(Event)
         /\ entries' = entries /\ commitIdx' = commitIdx /\ phase' = phase
         /\ lastApplied' = lastApplied /\ applied' = applied /\ calls' = calls
<1>1. queue[i] \in Seq(Event) /\ queue[i] # <<>>
  BY DEF Leave, TypeOK, ServerTypeOK
<1>2. Head(queue[i]).term \in Nat /\ Tail(queue[i]) \in Seq(Event)
  <2>1. Head(queue[i]) \in Event /\ Tail(queue[i]) \in Seq(Event)
    BY <1>1, HeadTailProperties
  <2> QED BY <2>1 DEF Event
<1>3. Max({since[i], Head(queue[i]).term}) \in Nat
  <2> DEFINE a == since[i]
             b == Head(queue[i]).term
  <2>1. a \in Nat /\ b \in Nat /\ a \in Int /\ b \in Int BY <1>2 DEF TypeOK
  <2> HIDE DEF a, b
  <2>2. Max({a, b}) \in {a, b} BY <2>1, MaxOfTwo, Zenon
  <2>3. Max({a, b}) \in Nat BY <2>1, <2>2
  <2> QED BY <2>3 DEF a, b
<1>4. since' \in [Server -> Nat]
  BY <1>3 DEF Leave, TypeOK
<1>5. appendReqs' \subseteq AppendEntriesMessage
  BY AbandonAppends DEF Leave, LiveCalls, TypeOK
<1>6. identity' \in [Server -> Identity]
  BY DEF Leave, TypeOK, ServerTypeOK
<1>7. /\ voteReplies' \subseteq VoteReply
      /\ appendReplies' \subseteq AppendReply
      /\ nextIdx' \in [Server -> [Server -> Nat \ {0}]]
      /\ matchIdx' \in [Server -> [Server -> Nat]]
      /\ adding' \in [Server -> BOOLEAN]
  BY DEF Leave, TypeOK
<1> QED BY <1>2, <1>4, <1>5, <1>6, <1>7 DEF Leave, logVars, applyVars

\* A transformation into anything but a candidate keeps the types.
LEMMA LeaveQuietlyType ==
  ASSUME TypeOK, NEW i \in Server, NEW target \in Identity, LeaveQuietly(i, target),
         timer' \in [Server -> BOOLEAN], replicateNum' \in [Server -> Seq(Nat)]
  PROVE  TypeOK'
<1>1. voteReqs' \subseteq RequestVoteMessage
  BY AbandonVotes DEF LeaveQuietly, LiveCalls, TypeOK
<1>2. queue' \in [Server -> Seq(Event)]
  BY LeaveType DEF LeaveQuietly, TypeOK, ServerTypeOK
<1>3. /\ UNCHANGED <<currentTerm, votedFor, termTriggered, candidateVars, grants>>
      /\ Leave(i, target)
  BY DEF LeaveQuietly
<1> QED
  BY <1>1, <1>2, <1>3, LeaveType DEF candidateVars, TypeOK, ServerTypeOK

\* So does one into a candidate.
LEMMA BecomeCandidateType ==
  ASSUME TypeOK, NEW i \in Server, BecomeCandidate(i)
  PROVE  TypeOK'
<1> DEFINE term == currentTerm[i] + 1
<1>1. term \in Nat BY DEF TypeOK, ServerTypeOK
<1>2. voteReqs' \subseteq RequestVoteMessage
  <2>1. PICK rest \in Abandon(voteReqs, LiveCalls(voteReqs, i)) :
          voteReqs' = rest \cup {VoteRequest(i, j, term) : j \in Server \ {i}}
    BY DEF BecomeCandidate
  <2>2. rest \subseteq RequestVoteMessage
    BY AbandonVotes DEF LiveCalls, TypeOK
  <2>3. \A j \in Server : VoteRequest(i, j, term) \in RequestVoteMessage
    BY <1>1, VoteRequestType DEF TypeOK
  <2> QED BY <2>1, <2>2, <2>3
<1>3. /\ Leave(i, "Candidate") /\ "Candidate" \in Identity
      /\ Tail(queue[i]) \in Seq(Event)
  BY LeaveType DEF BecomeCandidate, Identity
<1>4. queue' \in [Server -> Seq(Event)] /\ termTriggered' \in [Server -> Nat]
  <2>1. [to |-> "Leader", term |-> term] \in Event
    BY <1>1 DEF Event, Identity
  <2>2. Notified(i, Tail(queue[i]), "Leader", term) \in Seq(Event)
    BY <1>3, <2>1, AppendProperties DEF Notified
  <2>3. Triggered(i, term) \in [Server -> Nat]
    BY <1>1 DEF Triggered, TypeOK, ServerTypeOK
  <2>4. \/ queue' = [queue EXCEPT ![i] = Notified(i, Tail(queue[i]), "Leader", term)]
           /\ termTriggered' = Triggered(i, term)
        \/ queue' = [queue EXCEPT ![i] = Tail(queue[i])] /\ UNCHANGED termTriggered
    BY DEF BecomeCandidate
  <2>5. queue \in [Server -> Seq(Event)] /\ termTriggered \in [Server -> Nat]
    BY DEF TypeOK, ServerTypeOK
  <2>6. CASE /\ queue' = [queue EXCEPT ![i] = Notified(i, Tail(queue[i]), "Leader", term)]
             /\ termTriggered' = Triggered(i, term)
    BY <2>2, <2>3, <2>5, <2>6
  <2>7. CASE queue' = [queue EXCEPT ![i] = Tail(queue[i])] /\ UNCHANGED termTriggered
    BY <1>3, <2>5, <2>7
  <2> QED BY <2>4, <2>6, <2>7
<1>5. /\ currentTerm' \in [Server -> Nat]
      /\ votedFor' \in [Server -> Server \cup {Nil}]
      /\ grants' \subseteq Server \X Server \X Nat
      /\ votesReceived' \in [Server -> Nat]
  BY <1>1 DEF BecomeCandidate, VotesAtStart, TypeOK, ServerTypeOK
<1>6. /\ timer' \in [Server -> BOOLEAN] /\ replicateNum' \in [Server -> Seq(Nat)]
      /\ expiring' = expiring
  BY DEF BecomeCandidate, TypeOK, ServerTypeOK
<1> QED
  BY <1>2, <1>3, <1>4, <1>5, <1>6, LeaveType DEF TypeOK, ServerTypeOK

\* So does the end of a process.
LEMMA AbortType ==
  ASSUME TypeOK, NEW i \in Server, Abort(i)
  PROVE  TypeOK'
<1>1. appendReqs' \subseteq AppendEntriesMessage
  BY AbandonAppends DEF Abort, LiveCalls, TypeOK
<1>2. /\ phase' \in [Server -> Phase] /\ identity' \in [Server -> Identity]
      /\ timer' \in [Server -> BOOLEAN] /\ queue' \in [Server -> Seq(Event)]
      /\ replicateNum' \in [Server -> Seq(Nat)] /\ expiring' \in [Server -> SUBSET Nat]
  BY DEF Abort, TypeOK, ServerTypeOK, Phase, Identity
<1>3. /\ nextIdx' \in [Server -> [Server -> Nat \ {0}]]
      /\ matchIdx' \in [Server -> [Server -> Nat]]
      /\ adding' \in [Server -> BOOLEAN]
      /\ appendReplies' \subseteq AppendReply
  BY DEF Abort, TypeOK
<1> QED
  BY <1>1, <1>2, <1>3
  DEF Abort, TypeOK, ServerTypeOK, logVars, applyVars, candidateVars, voteCalls

\* Serving a RequestVote keeps the types.
LEMMA ServeRequestVoteType ==
  ASSUME TypeOK, NEW m \in voteReqs, ServeRequestVote(m)
  PROVE  TypeOK'
<1>1. m \in RequestVoteMessage /\ ServerTypeOK BY DEF TypeOK
<1>2. ServerTypeOK' /\ VoteAnswer(m.to, m) \in VoteReply
  BY <1>1, RequestVoteType DEF ServeRequestVote
<1>3. m.to \in Server /\ m.from \in Server /\ m.term \in Nat
  BY <1>1 DEF RequestVoteMessage
<1>4. grants' \subseteq Server \X Server \X Nat
  <2>1. <<m.to, m.from, m.term>> \in Server \X Server \X Nat BY <1>3
  <2>2. grants \subseteq Server \X Server \X Nat BY DEF TypeOK
  <2>3. grants' \subseteq grants \cup {<<m.to, m.from, m.term>>}
    BY DEF ServeRequestVote
  <2> QED BY <2>1, <2>2, <2>3
<1>5. voteReqs' \subseteq RequestVoteMessage
  BY DEF ServeRequestVote, TypeOK
<1>6. voteReplies' \subseteq VoteReply
  BY <1>2 DEF ServeRequestVote, TypeOK
<1>7. UNCHANGED <<phase, expiring, votesReceived, nextIdx, matchIdx, replicateNum, adding,
                  appendReqs, appendReplies, calls, since>>
  BY DEF ServeRequestVote, candidateVars, leaderVars, appendCalls
<1> QED BY <1>2, <1>4, <1>5, <1>6, <1>7 DEF TypeOK

\* Serving an AppendEntries keeps the types.
LEMMA ServeAppendEntriesType ==
  ASSUME TypeOK, NEW m \in appendReqs, ServeAppendEntries(m)
  PROVE  TypeOK'
<1>1. m \in AppendEntriesMessage /\ ServerTypeOK BY DEF TypeOK
<1>2. ServerTypeOK' /\ AppendAnswer(m.to, m) \in AppendReply
  BY <1>1, AppendEntriesType DEF ServeAppendEntries
<1> QED
  BY <1>2 DEF ServeAppendEntries, TypeOK, candidateVars, leaderVars, voteCalls

\* Counting a replica keeps the types.
LEMMA TakeAppendSuccessType ==
  ASSUME TypeOK, NEW r \in appendReplies, TakeAppendSuccess(r)
  PROVE  TypeOK'
<1> DEFINE i == r.from
           j == r.to
<1>1. i \in Server /\ j \in Server /\ r.sent \in Nat
  BY DEF TypeOK, AppendReply
<1>2. /\ nextIdx[i] \in [Server -> Nat \ {0}] /\ matchIdx[i] \in [Server -> Nat]
      /\ replicateNum[i] \in Seq(Nat)
  BY <1>1 DEF TypeOK
<1>3. nextIdx' \in [Server -> [Server -> Nat \ {0}]]
  <2>1. nextIdx[i][j] + r.sent \in Nat \ {0} BY <1>1, <1>2
  <2> QED BY <1>1, <1>2, <2>1 DEF TakeAppendSuccess, TypeOK
<1>4. matchIdx' \in [Server -> [Server -> Nat]]
  <2>1. MatchAfter(i, r) \in Nat BY <1>1, <1>2 DEF MatchAfter
  <2> QED BY <1>1, <1>2, <2>1 DEF TakeAppendSuccess, TypeOK
<1>5. replicateNum' \in [Server -> Seq(Nat)]
  <2> DEFINE num(k) == IF k > matchIdx[i][j] THEN replicateNum[i][k] + 1
                                             ELSE replicateNum[i][k]
             nums == [k \in 1..Len(replicateNum[i]) |-> num(k)]
  <2>1. nums \in Seq(Nat)
    <3>1. ASSUME NEW k \in 1..Len(replicateNum[i]) PROVE num(k) \in Nat
      BY <1>1, <1>2
    <3>2. Len(replicateNum[i]) \in Nat BY <1>2
    <3> HIDE DEF num
    <3> QED BY <3>1, <3>2
  <2>2. replicateNum' = [replicateNum EXCEPT ![i] = nums]
    BY DEF TakeAppendSuccess
  <2> HIDE DEF nums
  <2> QED BY <2>1, <2>2, <1>1 DEF TypeOK
<1>6. PICK c \in {commitIdx[i]} \cup Counted(i, r) :
        /\ commitIdx' = [commitIdx EXCEPT ![i] = c]
        /\ ApplyReadyEntries(i, entries[i], c)
  BY DEF TakeAppendSuccess
<1>7. c \in Nat
  BY <1>1, <1>2 DEF Counted, TypeOK, ServerTypeOK
<1>8. lastApplied' \in [Server -> Nat] /\ applied' \in [Server -> Seq(Label)]
  BY <1>1, <1>6, <1>7, ApplyType DEF TypeOK, ServerTypeOK
<1>9. commitIdx' \in [Server -> Nat]
  BY <1>1, <1>6, <1>7 DEF TypeOK, ServerTypeOK
<1>10. appendReplies' \subseteq AppendReply
  BY DEF TakeAppendSuccess, TypeOK
<1>11. UNCHANGED <<currentTerm, votedFor, entries, identity, termTriggered, queue, timer,
                   phase, expiring, votesReceived, adding, voteReqs, voteReplies, appendReqs,
                   calls, grants, since>>
  BY DEF TakeAppendSuccess, triggerVars, candidateVars, voteCalls
<1> QED
  BY <1>3, <1>4, <1>5, <1>8, <1>9, <1>10, <1>11 DEF TypeOK, ServerTypeOK

\* Every step keeps the types.
LEMMA TypeStep ==
  ASSUME TypeOK, [Next]_vars
  PROVE  TypeOK'
<1> USE DEF serverVars, logVars, applyVars, triggerVars, candidateVars, leaderVars,
            voteCalls, appendCalls
<1>1. ASSUME NEW i \in Server, Expires(i) PROVE TypeOK'
  <2>1. timer' \in [Server -> BOOLEAN] /\ expiring' \in [Server -> SUBSET Nat]
    BY <1>1 DEF Expires, TypeOK, ServerTypeOK
  <2> QED BY <1>1, <2>1 DEF Expires, TypeOK, ServerTypeOK
<1>2. ASSUME NEW i \in Server, Transform(i) PROVE TypeOK'
  <2>1. CASE BecomeDown(i)
    <3>1. timer' \in [Server -> BOOLEAN] /\ replicateNum' \in [Server -> Seq(Nat)]
      BY <2>1 DEF BecomeDown, TypeOK, ServerTypeOK
    <3> QED BY <2>1, <3>1, LeaveQuietlyType DEF BecomeDown, Identity
  <2>2. CASE BecomeFollower(i)
    <3>1. timer' \in [Server -> BOOLEAN] /\ replicateNum' \in [Server -> Seq(Nat)]
      BY <2>2 DEF BecomeFollower, TypeOK, ServerTypeOK
    <3> QED BY <2>2, <3>1, LeaveQuietlyType DEF BecomeFollower, Identity
  <2>3. CASE BecomeLeader(i)
    <3>1. [k \in 1..Len(entries[i]) |-> 1] \in Seq(Nat)
      BY DEF TypeOK, ServerTypeOK
    <3>2. timer' \in [Server -> BOOLEAN] /\ replicateNum' \in [Server -> Seq(Nat)]
      BY <2>3, <3>1 DEF BecomeLeader, TypeOK, ServerTypeOK
    <3> QED BY <2>3, <3>2, LeaveQuietlyType DEF BecomeLeader, Identity
  <2>4. CASE BecomeCandidate(i)
    BY <2>4, BecomeCandidateType
  <2> QED BY <1>2, <2>1, <2>2, <2>3, <2>4 DEF Transform
<1>3. ASSUME NEW i \in Server, Stop(i) PROVE TypeOK'
  <2>1. [to |-> "Down", term |-> 0] \in Event BY DEF Event, Identity
  <2>2. Append(queue[i], [to |-> "Down", term |-> 0]) \in Seq(Event)
    BY <2>1, AppendProperties DEF TypeOK, ServerTypeOK
  <2>3. queue' \in [Server -> Seq(Event)] /\ phase' \in [Server -> Phase]
    BY <1>3, <2>2 DEF Stop, Phase, TypeOK, ServerTypeOK
  <2> QED BY <1>3, <2>3 DEF Stop, TypeOK, ServerTypeOK
<1>4. ASSUME NEW i \in Server, Stopped(i) PROVE TypeOK'
  <2>1. phase' \in [Server -> Phase]
    BY <1>4 DEF Stopped, Phase, TypeOK
  <2> QED BY <1>4, <2>1 DEF Stopped, TypeOK, ServerTypeOK
<1>5. ASSUME NEW m \in voteReqs, ServeRequestVote(m) PROVE TypeOK'
  BY <1>5, ServeRequestVoteType
<1>6. ASSUME NEW r \in voteReplies, TakeVoteReply(r) PROVE TypeOK'
  <2>1. r.from \in Server /\ r.sent \in Nat
    BY DEF TypeOK, VoteReply
  <2>2. queue' \in [Server -> Seq(Event)] /\ termTriggered' \in [Server -> Nat]
    BY <1>6, <2>1, NotifyType DEF TakeVoteReply, Identity, TypeOK, ServerTypeOK
  <2>3. votesReceived[r.from] + (IF CountsAsVote(r) THEN 1 ELSE 0) \in Nat
    BY <2>1 DEF TypeOK
  <2>4. votesReceived' \in [Server -> Nat]
    BY <1>6, <2>3 DEF TakeVoteReply, TypeOK
  <2>5. voteReplies' \subseteq VoteReply
    BY <1>6 DEF TakeVoteReply, TypeOK
  <2>6. UNCHANGED <<currentTerm, votedFor, entries, commitIdx, lastApplied, applied,
                    identity, timer, phase, expiring, nextIdx, matchIdx, replicateNum, adding,
                    voteReqs, appendReqs, appendReplies, calls, grants, since>>
    BY <1>6 DEF TakeVoteReply
  <2> QED BY <2>2, <2>4, <2>5, <2>6 DEF TypeOK, ServerTypeOK
<1>7. ASSUME NEW i \in Server, NEW j \in Server, SendAppendEntries(i, j) PROVE TypeOK'
  <2>1. AppendRequest(i, j) \in AppendEntriesMessage
    BY <1>7, AppendRequestType DEF SendAppendEntries
  <2>2. appendReqs' \subseteq AppendEntriesMessage
    BY <1>7, <2>1, AbandonAppends DEF SendAppendEntries, LiveCalls, TypeOK
  <2>3. appendReplies' \subseteq AppendReply
    BY <1>7 DEF SendAppendEntries, TypeOK
  <2> QED BY <1>7, <2>2, <2>3 DEF SendAppendEntries, TypeOK, ServerTypeOK
<1>8. ASSUME NEW i \in Server, NEW j \in Server, SendAppendEntriesThrows(i, j)
      PROVE  TypeOK'
  BY <1>8, AbortType DEF SendAppendEntriesThrows
<1>9. ASSUME NEW m \in appendReqs, ServeAppendEntries(m) PROVE TypeOK'
  BY <1>9, ServeAppendEntriesType
<1>10. ASSUME NEW r \in appendReplies, TakeAppendReply(r) PROVE TypeOK'
  <2>1. r.from \in Server /\ r.to \in Server /\ r.term \in Nat
    BY DEF TypeOK, AppendReply
  <2>2. CASE TakeAppendSuccess(r)
    BY <2>2, TakeAppendSuccessType
  <2>3. CASE TakeAppendSuccessCrashes(r)
    BY <2>1, <2>3, AbortType DEF TakeAppendSuccessCrashes
  <2>4. CASE TakeAppendGreaterTerm(r)
    <3>1. queue' \in [Server -> Seq(Event)] /\ termTriggered' \in [Server -> Nat]
      BY <2>1, <2>4, NotifyType DEF TakeAppendGreaterTerm, Identity, TypeOK, ServerTypeOK
    <3>2. currentTerm' \in [Server -> Nat] /\ appendReplies' \subseteq AppendReply
      BY <2>1, <2>4 DEF TakeAppendGreaterTerm, TypeOK, ServerTypeOK
    <3> QED BY <2>4, <3>1, <3>2 DEF TakeAppendGreaterTerm, TypeOK, ServerTypeOK
  <2>5. CASE TakeAppendRejection(r)
    <3>1. \A n \in Nat \ {0} : BackedOff(n) \in Nat \ {0}
      BY DEF BackedOff
    <3>2. nextIdx' \in [Server -> [Server -> Nat \ {0}]]
      BY <2>1, <2>5, <3>1 DEF TakeAppendRejection, TypeOK
    <3>3. appendReplies' \subseteq AppendReply
      BY <2>5 DEF TakeAppendRejection, TypeOK
    <3> QED BY <2>5, <3>2, <3>3 DEF TakeAppendRejection, TypeOK, ServerTypeOK
  <2> QED BY <1>10, <2>2, <2>3, <2>4, <2>5 DEF TakeAppendReply
<1>11. ASSUME NEW i \in Server, NEW req \in Request, AddLog(i, req) PROVE TypeOK'
  <2>1. [term |-> currentTerm[i], req |-> req] \in Entry
    BY DEF Entry, Label, TypeOK, ServerTypeOK
  <2>2. Append(entries[i], [term |-> currentTerm[i], req |-> req]) \in Seq(Entry)
    BY <2>1, AppendProperties DEF TypeOK, ServerTypeOK
  <2>3. entries' \in [Server -> Seq(Entry)]
    <3>1. entries \in [Server -> Seq(Entry)] BY DEF TypeOK, ServerTypeOK
    <3>2. \/ entries' = [entries EXCEPT ![i] =
                           Append(entries[i], [term |-> currentTerm[i], req |-> req])]
          \/ entries' = entries
      BY <1>11 DEF AddLog
    <3> QED BY <2>2, <3>1, <3>2
  <2>4. adding' \in [Server -> BOOLEAN]
    BY <1>11 DEF AddLog, TypeOK
  <2>5. calls' \in [Server -> [Request -> Nat]]
    BY <1>11 DEF AddLog, TypeOK
  <2> QED BY <1>11, <2>3, <2>4, <2>5 DEF AddLog, TypeOK, ServerTypeOK
<1>12. ASSUME NEW i \in Server, AddLogState(i) PROVE TypeOK'
  <2>1. Append(replicateNum[i], 1) \in Seq(Nat)
    BY AppendProperties DEF TypeOK
  <2>2. replicateNum' \in [Server -> Seq(Nat)] /\ adding' \in [Server -> BOOLEAN]
    BY <1>12, <2>1 DEF AddLogState, TypeOK
  <2> QED BY <1>12, <2>2 DEF AddLogState, TypeOK, ServerTypeOK
<1>13. ASSUME NEW i \in Server, NotifyTimeout(i) PROVE TypeOK'
  <2>1. PICK term \in expiring[i] : /\ expiring' = [expiring EXCEPT ![i] = {}]
                                   /\ Notify(i, "Candidate", term)
    BY <1>13 DEF NotifyTimeout
  <2>2. term \in Nat BY DEF TypeOK
  <2>3. queue' \in [Server -> Seq(Event)] /\ termTriggered' \in [Server -> Nat]
    BY <2>1, <2>2, NotifyType DEF Identity, TypeOK
  <2>4. expiring' \in [Server -> SUBSET Nat] BY <2>1 DEF TypeOK
  <2> QED BY <1>13, <2>3, <2>4 DEF NotifyTimeout, TypeOK, ServerTypeOK
<1>14. CASE UNCHANGED vars
  BY <1>14 DEF vars, TypeOK, ServerTypeOK
<1> QED
  BY <1>1, <1>2, <1>3, <1>4, <1>5, <1>6, <1>7, <1>8, <1>9, <1>10, <1>11, <1>12, <1>13, <1>14
  DEF Next

\* The initial state is well typed.
LEMMA TypeInit ==
  ASSUME Init
  PROVE  TypeOK
<1>1. ServerTypeOK
  <2>1. <<[to |-> "Follower", term |-> 0]>> \in Seq(Event)
    BY DEF Event, Identity
  <2> QED BY <2>1 DEF Init, InitServer, ServerTypeOK, Identity
<1> QED BY <1>1, RoleAssumption DEF Init, TypeOK, Phase

\* Type correctness: in every state of every execution the state of the servers,
\* the calls in flight and the histories have the types of the code: in
\* particular the index an append thread starts from is never 0, which
\* createAppendEntriesMessage asserts.
THEOREM TypeCorrect == Spec => []TypeOK
<1>1. Init => TypeOK BY TypeInit
<1>2. TypeOK /\ [Next]_vars => TypeOK' BY TypeStep
<1> QED BY <1>1, <1>2, PTL DEF Spec

-----------------------------------------------------------------------------
(***************************************************************************)
(* One transformation per term.  OneTransformationPerTerm is not inductive: *)
(* that an event appended by notify comes last in the order of terms holds  *)
(* because termTriggered bounds every term seen before.                     *)
(***************************************************************************)
Bounded(q, last, bound) ==
  last <= bound /\ \A k \in 1..Len(q) : q[k].term <= bound

\* OneTransformationPerTerm made inductive: termTriggered bounds all terms.
TriggerInv ==
  \A i \in Server :
    InOrder(queue[i], since[i]) /\ Bounded(queue[i], since[i], termTriggered[i])

\* Events have terms.
LEMMA EventTerms ==
  ASSUME NEW q \in Seq(Event), NEW k \in 1..Len(q)
  PROVE  q[k].term \in Nat
<1>1. q[k] \in Event OBVIOUS
<1> QED BY <1>1 DEF Event

\* Adding an event for a term that notify lets through.
LEMMA FreshEventLast ==
  ASSUME NEW q \in Seq(Event), NEW last \in Nat, NEW bound \in Nat, NEW e \in Event,
         InOrder(q, last), Bounded(q, last, bound),
         bound = 0 \/ bound < e.term
  PROVE  InOrder(Append(q, e), last) /\ Bounded(Append(q, e), last, e.term)
<1> DEFINE p == Append(q, e)
<1>1. /\ Len(p) = Len(q) + 1 /\ Len(q) \in Nat /\ p[Len(q) + 1] = e
      /\ \A k \in 1..Len(q) : p[k] = q[k] /\ q[k].term \in Nat
  BY AppendProperties, EventTerms
<1>2. e.term \in Nat BY DEF Event
<1> HIDE DEF p
<1>3. Bounded(p, last, e.term)
  BY <1>1, <1>2 DEF Bounded
<1>4. ASSUME NEW k \in 1..Len(p), p[k].term # 0
      PROVE  last < p[k].term /\ \A n \in 1..(k - 1) : p[n].term < p[k].term
  <2>1. CASE k \in 1..Len(q)
    <3>1. p[k] = q[k] BY <1>1, <2>1
    <3>2. \A n \in 1..(k - 1) : n \in 1..Len(q) /\ p[n] = q[n]
      BY <1>1, <2>1
    <3>3. last < q[k].term /\ \A n \in 1..(k - 1) : q[n].term < q[k].term
      BY <1>4, <2>1, <3>1 DEF InOrder
    <3> QED BY <3>1, <3>2, <3>3
  <2>2. CASE k = Len(q) + 1
    BY <1>1, <1>2, <1>4, <2>2 DEF Bounded
  <2> QED BY <1>1, <2>1, <2>2
<1>5. InOrder(p, last) BY <1>4 DEF InOrder
<1> QED BY <1>3, <1>5 DEF p

\* Adding an event of AsyncRun or Stop.
LEMMA ZeroEventLast ==
  ASSUME NEW q \in Seq(Event), NEW last \in Nat, NEW bound \in Nat, NEW e \in Event,
         InOrder(q, last), Bounded(q, last, bound), e.term = 0
  PROVE  InOrder(Append(q, e), last) /\ Bounded(Append(q, e), last, bound)
<1> DEFINE p == Append(q, e)
<1>1. /\ Len(p) = Len(q) + 1 /\ Len(q) \in Nat /\ p[Len(q) + 1] = e
      /\ \A k \in 1..Len(q) : p[k] = q[k]
  BY AppendProperties
<1> HIDE DEF p
<1>2. Bounded(p, last, bound)
  BY <1>1 DEF Bounded
<1>3. InOrder(p, last)
  BY <1>1 DEF InOrder
<1> QED BY <1>2, <1>3 DEF p

\* Taking the first event.
LEMMA TakeFirstEvent ==
  ASSUME NEW q \in Seq(Event), q # <<>>, NEW last \in Nat, NEW bound \in Nat,
         InOrder(q, last), Bounded(q, last, bound)
  PROVE  /\ Max({last, Head(q).term}) \in Nat
         /\ InOrder(Tail(q), Max({last, Head(q).term}))
         /\ Bounded(Tail(q), Max({last, Head(q).term}), bound)
         /\ Head(q).term # 0 => Max({last, Head(q).term}) = Head(q).term
<1> DEFINE t == Tail(q)
           h == Head(q).term
           mx == Max({last, h})
<1>1. /\ Len(t) = Len(q) - 1 /\ Len(q) \in Nat /\ Len(q) > 0
      /\ \A k \in 1..Len(t) : t[k] = q[k + 1]
      /\ h = q[1].term
  BY HeadTailProperties
<1>2. \A k \in 1..Len(q) : q[k].term \in Nat
  BY EventTerms
<1>3. h \in Nat /\ h \in Int /\ last \in Int /\ h <= bound
  BY <1>1, <1>2 DEF Bounded
<1>4. mx \in {last, h} /\ mx >= last /\ mx >= h
  <2> HIDE DEF h
  <2> QED BY <1>3, MaxOfTwo, Zenon
<1>5. h # 0 => last < h
  BY <1>1 DEF InOrder
<1> HIDE DEF t, h, mx
<1>6. mx \in Nat /\ mx <= bound /\ (h # 0 => mx = h)
  BY <1>3, <1>4, <1>5 DEF Bounded
<1>7. Bounded(t, mx, bound)
  BY <1>1, <1>6 DEF Bounded
<1>8. ASSUME NEW k \in 1..Len(t), t[k].term # 0
      PROVE  mx < t[k].term /\ \A n \in 1..(k - 1) : t[n].term < t[k].term
  <2>1. k + 1 \in 1..Len(q) /\ t[k] = q[k + 1] BY <1>1
  <2>2. last < q[k + 1].term /\ \A n \in 1..k : q[n].term < q[k + 1].term
    BY <1>8, <2>1, <1>1 DEF InOrder
  <2>3. mx < t[k].term BY <1>1, <1>4, <2>1, <2>2
  <2>4. ASSUME NEW n \in 1..(k - 1) PROVE t[n].term < t[k].term
    <3>1. n \in 1..Len(t) /\ n + 1 \in 1..k BY <1>1
    <3> QED BY <1>1, <2>1, <2>2, <3>1
  <2> QED BY <2>3, <2>4
<1>9. InOrder(t, mx) BY <1>8 DEF InOrder
<1> QED BY <1>6, <1>7, <1>9 DEF t, h, mx

\* Steps that trigger and carry out nothing.
LEMMA TriggerUnchanged ==
  ASSUME TriggerInv, UNCHANGED <<queue, termTriggered, since>>
  PROVE  TriggerInv'
  BY DEF TriggerInv

\* notify lets through only what goes beyond termTriggered.
LEMMA TriggerNotify ==
  ASSUME TypeOK, TriggerInv, NEW i \in Server, NEW target \in Identity,
         NEW term \in Nat, Notify(i, target, term), since' = since
  PROVE  TriggerInv'
<1> DEFINE e == [to |-> target, term |-> term]
<1>1. /\ e \in Event /\ queue[i] \in Seq(Event) /\ since[i] \in Nat
      /\ termTriggered[i] \in Nat
  BY DEF Event, TypeOK, ServerTypeOK
<1>2. CASE Fresh(i, term)
  <2>1. /\ queue' = [queue EXCEPT ![i] = Append(queue[i], e)]
        /\ termTriggered' = [termTriggered EXCEPT ![i] = term]
    BY <1>2 DEF Notify, Notified, Triggered
  <2>2. /\ InOrder(Append(queue[i], e), since[i])
        /\ Bounded(Append(queue[i], e), since[i], term)
    <3>1. e.term = term OBVIOUS
    <3> HIDE DEF e
    <3> QED BY <1>1, <1>2, <3>1, FreshEventLast DEF Fresh, TriggerInv
  <2> HIDE DEF e
  <2>3. /\ queue'[i] = Append(queue[i], e) /\ termTriggered'[i] = term
        /\ \A j \in Server \ {i} :
             queue'[j] = queue[j] /\ termTriggered'[j] = termTriggered[j]
    BY <2>1 DEF TypeOK, ServerTypeOK
  <2> QED BY <2>2, <2>3 DEF TriggerInv
<1>3. CASE ~Fresh(i, term)
  <2>1. queue' = queue /\ termTriggered' = termTriggered
    BY <1>3 DEF Notify, Notified, Triggered, TypeOK, ServerTypeOK
  <2> QED BY <2>1, TriggerUnchanged
<1> QED BY <1>2, <1>3

\* Leave takes the first event; e may be triggered by init in the same step.
LEMMA TriggerLeave ==
  ASSUME TypeOK, TriggerInv, NEW i \in Server, NEW target, Leave(i, target)
  PROVE  /\ Tail(queue[i]) \in Seq(Event) /\ since' \in [Server -> Nat]
         /\ InOrder(Tail(queue[i]), since'[i])
         /\ Bounded(Tail(queue[i]), since'[i], termTriggered[i])
         /\ \A j \in Server \ {i} : since'[j] = since[j]
         /\ Head(queue[i]).term # 0 => since'[i] = Head(queue[i]).term
<1>1. /\ queue[i] \in Seq(Event) /\ queue[i] # <<>> /\ since[i] \in Nat
      /\ termTriggered[i] \in Nat
  BY DEF Leave, TypeOK, ServerTypeOK
<1>2. /\ since'[i] = Max({since[i], Head(queue[i]).term})
      /\ \A j \in Server \ {i} : since'[j] = since[j]
      /\ since' = [since EXCEPT ![i] = Max({since[i], Head(queue[i]).term})]
  BY DEF Leave, TypeOK
<1>3. /\ Max({since[i], Head(queue[i]).term}) \in Nat
      /\ InOrder(Tail(queue[i]), Max({since[i], Head(queue[i]).term}))
      /\ Bounded(Tail(queue[i]), Max({since[i], Head(queue[i]).term}), termTriggered[i])
      /\ Head(queue[i]).term # 0
           => Max({since[i], Head(queue[i]).term}) = Head(queue[i]).term
  BY <1>1, TakeFirstEvent DEF TriggerInv
<1>4. since' \in [Server -> Nat] /\ Tail(queue[i]) \in Seq(Event)
  BY <1>1, <1>2, <1>3, HeadTailProperties DEF TypeOK
<1> QED BY <1>2, <1>3, <1>4

\* Carrying out a transformation.
LEMMA TriggerLeaveQuietly ==
  ASSUME TypeOK, TriggerInv, NEW i \in Server, NEW target, LeaveQuietly(i, target)
  PROVE  TriggerInv'
<1>1. Leave(i, target) /\ UNCHANGED termTriggered
  BY DEF LeaveQuietly
<1>2. queue'[i] = Tail(queue[i]) /\ \A j \in Server \ {i} : queue'[j] = queue[j]
  BY DEF LeaveQuietly, TypeOK, ServerTypeOK
<1> QED BY <1>1, <1>2, TriggerLeave DEF TriggerInv

\* Carrying out one that may trigger the next.
LEMMA TriggerBecomeCandidate ==
  ASSUME TypeOK, TriggerInv, NEW i \in Server, BecomeCandidate(i)
  PROVE  TriggerInv'
<1> DEFINE term == currentTerm[i] + 1
           e == [to |-> "Leader", term |-> term]
           q == Tail(queue[i])
<1>1. Leave(i, "Candidate") BY DEF BecomeCandidate
<1>2. /\ q \in Seq(Event) /\ since' \in [Server -> Nat] /\ InOrder(q, since'[i])
      /\ Bounded(q, since'[i], termTriggered[i])
      /\ \A j \in Server \ {i} : since'[j] = since[j]
  BY <1>1, TriggerLeave
<1>3. e \in Event /\ e.term = term /\ term \in Nat /\ termTriggered[i] \in Nat
  BY DEF Event, Identity, TypeOK, ServerTypeOK
<1>4. \/ /\ queue' = [queue EXCEPT ![i] = Append(q, e)] /\ Fresh(i, term)
         /\ termTriggered' = [termTriggered EXCEPT ![i] = term]
      \/ /\ queue' = [queue EXCEPT ![i] = q]
         /\ termTriggered' = termTriggered
  BY DEF BecomeCandidate, Notified, Triggered, TypeOK, ServerTypeOK
<1> HIDE DEF e, q, term
<1>5. CASE /\ queue' = [queue EXCEPT ![i] = Append(q, e)] /\ Fresh(i, term)
           /\ termTriggered' = [termTriggered EXCEPT ![i] = term]
  <2>1. InOrder(Append(q, e), since'[i]) /\ Bounded(Append(q, e), since'[i], term)
    BY <1>2, <1>3, <1>5, FreshEventLast DEF Fresh
  <2>2. /\ queue'[i] = Append(q, e) /\ termTriggered'[i] = term
        /\ \A j \in Server \ {i} :
             queue'[j] = queue[j] /\ termTriggered'[j] = termTriggered[j]
    BY <1>5 DEF TypeOK, ServerTypeOK
  <2> QED BY <1>2, <2>1, <2>2 DEF TriggerInv
<1>6. CASE queue' = [queue EXCEPT ![i] = q] /\ termTriggered' = termTriggered
  <2>1. queue'[i] = q /\ \A j \in Server \ {i} : queue'[j] = queue[j]
    BY <1>6 DEF TypeOK, ServerTypeOK
  <2> QED BY <1>2, <1>6, <2>1 DEF TriggerInv
<1> QED BY <1>4, <1>5, <1>6

\* A process that ends has no events.
LEMMA TriggerAbort ==
  ASSUME TypeOK, TriggerInv, NEW i \in Server, Abort(i)
  PROVE  TriggerInv'
<1>1. /\ queue'[i] = <<>> /\ \A j \in Server \ {i} : queue'[j] = queue[j]
      /\ termTriggered' = termTriggered /\ since' = since
  BY DEF Abort, TypeOK, ServerTypeOK
<1>2. InOrder(<<>>, since[i]) /\ Bounded(<<>>, since[i], termTriggered[i])
  BY DEF InOrder, Bounded, TriggerInv
<1> QED BY <1>1, <1>2 DEF TriggerInv

\* TriggerInv holds through every step.
LEMMA TriggerStep ==
  ASSUME TypeOK, TriggerInv, [Next]_vars
  PROVE  TriggerInv'
<1> USE DEF serverVars, triggerVars
<1>1. ASSUME NEW i \in Server, Expires(i) PROVE TriggerInv'
  BY <1>1, TriggerUnchanged DEF Expires
<1>2. ASSUME NEW i \in Server, Transform(i) PROVE TriggerInv'
  BY <1>2, TriggerLeaveQuietly, TriggerBecomeCandidate
  DEF Transform, BecomeDown, BecomeFollower, BecomeLeader
<1>3. ASSUME NEW i \in Server, Stop(i) PROVE TriggerInv'
  <2> DEFINE e == [to |-> "Down", term |-> 0]
  <2>1. /\ e \in Event /\ e.term = 0 /\ queue[i] \in Seq(Event) /\ since[i] \in Nat
        /\ termTriggered[i] \in Nat
    BY DEF Event, Identity, TypeOK, ServerTypeOK
  <2>2. /\ queue'[i] = Append(queue[i], e)
        /\ \A j \in Server \ {i} : queue'[j] = queue[j]
        /\ termTriggered' = termTriggered /\ since' = since
    BY <1>3 DEF Stop, TypeOK, ServerTypeOK
  <2> HIDE DEF e
  <2>3. /\ InOrder(Append(queue[i], e), since[i])
        /\ Bounded(Append(queue[i], e), since[i], termTriggered[i])
    BY <2>1, ZeroEventLast DEF TriggerInv
  <2> QED BY <2>2, <2>3 DEF TriggerInv
<1>4. ASSUME NEW i \in Server, Stopped(i) PROVE TriggerInv'
  BY <1>4, TriggerUnchanged DEF Stopped
<1>5. ASSUME NEW m \in voteReqs, ServeRequestVote(m) PROVE TriggerInv'
  <2>1. m.to \in Server /\ m.term \in Nat BY DEF TypeOK, RequestVoteMessage
  <2>2. since' = since BY <1>5 DEF ServeRequestVote
  <2>3. Notify(m.to, "Follower", m.term) \/ UNCHANGED <<queue, termTriggered>>
    BY <1>5 DEF ServeRequestVote, RPCRequestVote
  <2> QED BY <2>1, <2>2, <2>3, TriggerNotify, TriggerUnchanged DEF Identity
<1>6. ASSUME NEW r \in voteReplies, TakeVoteReply(r) PROVE TriggerInv'
  <2>1. r.from \in Server /\ r.sent \in Nat BY DEF TypeOK, VoteReply
  <2>2. since' = since BY <1>6 DEF TakeVoteReply
  <2>3. Notify(r.from, "Leader", r.sent) \/ UNCHANGED <<queue, termTriggered>>
    BY <1>6 DEF TakeVoteReply
  <2> QED BY <2>1, <2>2, <2>3, TriggerNotify, TriggerUnchanged DEF Identity
<1>7. ASSUME NEW i \in Server, NEW j \in Server, SendAppendEntries(i, j)
      PROVE  TriggerInv'
  BY <1>7, TriggerUnchanged DEF SendAppendEntries
<1>8. ASSUME NEW i \in Server, NEW j \in Server, SendAppendEntriesThrows(i, j)
      PROVE  TriggerInv'
  BY <1>8, TriggerAbort DEF SendAppendEntriesThrows
<1>9. ASSUME NEW m \in appendReqs, ServeAppendEntries(m) PROVE TriggerInv'
  <2>1. m.to \in Server /\ m.term \in Nat BY DEF TypeOK, AppendEntriesMessage
  <2>2. since' = since BY <1>9 DEF ServeAppendEntries
  <2>3. Notify(m.to, "Follower", m.term) \/ UNCHANGED <<queue, termTriggered>>
    BY <1>9 DEF ServeAppendEntries, RPCAppendEntries
  <2> QED BY <2>1, <2>2, <2>3, TriggerNotify, TriggerUnchanged DEF Identity
<1>10. ASSUME NEW r \in appendReplies, TakeAppendReply(r) PROVE TriggerInv'
  <2>1. r.from \in Server /\ r.term \in Nat BY DEF TypeOK, AppendReply
  <2>2. CASE TakeAppendSuccess(r)
    BY <2>2, TriggerUnchanged DEF TakeAppendSuccess
  <2>3. CASE TakeAppendSuccessCrashes(r)
    BY <2>1, <2>3, TriggerAbort DEF TakeAppendSuccessCrashes
  <2>4. CASE TakeAppendGreaterTerm(r)
    BY <2>1, <2>4, TriggerNotify DEF TakeAppendGreaterTerm, Identity
  <2>5. CASE TakeAppendRejection(r)
    BY <2>5, TriggerUnchanged DEF TakeAppendRejection
  <2> QED BY <1>10, <2>2, <2>3, <2>4, <2>5 DEF TakeAppendReply
<1>11. ASSUME NEW i \in Server, NEW req \in Request, AddLog(i, req) PROVE TriggerInv'
  BY <1>11, TriggerUnchanged DEF AddLog
<1>12. ASSUME NEW i \in Server, AddLogState(i) PROVE TriggerInv'
  BY <1>12, TriggerUnchanged DEF AddLogState, serverVars
<1>13. ASSUME NEW i \in Server, NotifyTimeout(i) PROVE TriggerInv'
  <2>1. PICK term \in expiring[i] : Notify(i, "Candidate", term) /\ since' = since
    BY <1>13 DEF NotifyTimeout
  <2>2. term \in Nat BY DEF TypeOK
  <2> QED BY <2>1, <2>2, TriggerNotify DEF Identity
<1>14. CASE UNCHANGED vars
  BY <1>14, TriggerUnchanged DEF vars
<1> QED
  BY <1>1, <1>2, <1>3, <1>4, <1>5, <1>6, <1>7, <1>8, <1>9, <1>10, <1>11, <1>12, <1>13, <1>14
  DEF Next

\* AsyncRun's event is for no term.
LEMMA TriggerInit ==
  ASSUME Init
  PROVE  TriggerInv
<1>1. ASSUME NEW i \in Server
      PROVE  /\ Len(queue[i]) = 1 /\ queue[i][1].term = 0
             /\ since[i] = 0 /\ termTriggered[i] = 0
  BY DEF Init, InitServer
<1> QED BY <1>1 DEF TriggerInv, InOrder, Bounded

\* One transformation per term: whatever the interleaving of timeouts, votes,
\* step downs and Stop, IdentityTransformer never has two transformations of a
\* server carried out for the same term, nor one for an earlier term after one
\* for a later.
THEOREM TransformationsInOrder == Spec => []OneTransformationPerTerm
<1>1. Init => TypeOK /\ TriggerInv
  BY TypeInit, TriggerInit
<1>2. TypeOK /\ TriggerInv /\ [Next]_vars => (TypeOK /\ TriggerInv)'
  BY TypeStep, TriggerStep
<1>3. TypeOK /\ TriggerInv => OneTransformationPerTerm
  BY DEF TriggerInv, OneTransformationPerTerm
<1> QED BY <1>1, <1>2, <1>3, PTL DEF Spec

-----------------------------------------------------------------------------
(***************************************************************************)
(* A leader has a quorum.  The counter of a candidate never exceeds the     *)
(* number of servers that have voted for it in the term of its open calls   *)
(* and whose answer is no longer awaited.                                   *)
(***************************************************************************)
Pending(i, j) ==
  \/ \E m \in voteReqs : m.live /\ m.from = i /\ m.to = j
  \/ \E r \in voteReplies : r.from = i /\ r.to = j

\* The voters of i whose answer has been taken, or is lost.
CountedVoters(i, term) == {v \in Server : <<v, i, term>> \in grants /\ ~Pending(i, v)}

\* votesReceived counts no more than these.
VotesCounted(i, term) ==
  term > 0 /\ votesReceived[i] <= Cardinality(CountedVoters(i, term))

\* At most one open call from one server to another.
OneCall ==
  /\ \A m, n \in voteReqs :
       m.live /\ n.live /\ m.from = n.from /\ m.to = n.to => m = n
  /\ \A r, s \in voteReplies : r.from = s.from /\ r.to = s.to => r = s
  /\ \A m \in voteReqs, r \in voteReplies :
       m.live /\ m.from = r.from => m.to # r.to

\* All open calls of a server are of one candidacy.
OneTerm ==
  /\ \A m, n \in voteReqs : m.live /\ n.live /\ m.from = n.from => m.term = n.term
  /\ \A r, s \in voteReplies : r.from = s.from => r.sent = s.sent
  /\ \A m \in voteReqs, r \in voteReplies :
       m.live /\ m.from = r.from => m.term = r.sent

\* A reply that grants a vote tells of a vote that was given.
VotesAreGrants == \A r \in voteReplies : r.ok => <<r.to, r.from, r.sent>> \in grants

\* What makes votesReceived a count of distinct voters.
VoteInv ==
  /\ OneCall
  /\ OneTerm
  /\ VotesAreGrants
  /\ \A m \in voteReqs : m.live => VotesCounted(m.from, m.term)
  /\ \A r \in voteReplies : VotesCounted(r.from, r.sent)

\* The events of i that make it a leader have a quorum behind them.
Elected(i, q) ==
  \A k \in 1..Len(q) :
    q[k].to = "Leader" =>
      q[k].term > 0 /\ Majority(Cardinality(Voters(i, q[k].term)))

\* LeaderHasQuorum, and no leader is elected for term 0.
QuorumInv ==
  \A i \in Server :
    /\ Elected(i, queue[i])
    /\ identity[i] = "Leader" => Majority(Cardinality(Voters(i, since[i])))

\* More votes never make a majority less.
LEMMA MoreVoters ==
  ASSUME NEW S \in SUBSET Server, NEW T \in SUBSET S
  PROVE  /\ Cardinality(S) \in Nat /\ Cardinality(T) \in Nat
         /\ Cardinality(T) <= Cardinality(S)
         /\ Majority(Cardinality(T)) => Majority(Cardinality(S))
<1>1. IsFiniteSet(Server) /\ IsFiniteSet(S)
  BY ServerAssumption, FS_Subset
<1>2. IsFiniteSet(T) /\ Cardinality(T) <= Cardinality(S)
  BY <1>1, FS_Subset
<1>3. Cardinality(S) \in Nat /\ Cardinality(T) \in Nat /\ Cardinality(Server) \in Nat
  BY <1>1, <1>2, FS_CardinalityType
<1> QED BY <1>2, <1>3 DEF Majority

\* A set with one more voter is larger by one.
LEMMA OneMoreVoter ==
  ASSUME NEW S \in SUBSET Server, NEW T \in SUBSET S, NEW v \in S \ T
  PROVE  Cardinality(T) + 1 <= Cardinality(S)
<1>1. IsFiniteSet(S) /\ IsFiniteSet(T)
  BY ServerAssumption, FS_Subset
<1>2. Cardinality(T \cup {v}) = Cardinality(T) + 1
  BY <1>1, FS_AddElement
<1>3. T \cup {v} \in SUBSET S OBVIOUS
<1> QED BY <1>2, <1>3, MoreVoters

\* A majority that is not larger than another number makes that one, too.
LEMMA MajorityUp ==
  ASSUME NEW a \in Nat, NEW b \in Nat, a <= b, Majority(a)
  PROVE  Majority(b)
<1>1. Cardinality(Server) \in Nat BY ServerAssumption, FS_CardinalityType
<1> QED BY <1>1 DEF Majority

\* Giving up the calls of i leaves the open calls of the others as they are.
LEMMA AbandonOpen ==
  ASSUME NEW reqs \in SUBSET RequestVoteMessage, NEW i \in Server,
         NEW rest \in Abandon(reqs, LiveCalls(reqs, i)), NEW m
  PROVE  m \in rest /\ m.live <=> m \in reqs /\ m.live /\ m.from # i
<1>1. PICK kept \in SUBSET LiveCalls(reqs, i) :
         rest = (reqs \ LiveCalls(reqs, i)) \cup {[n EXCEPT !.live = FALSE] : n \in kept}
  BY DEF Abandon
<1>2. ASSUME NEW n \in kept PROVE [n EXCEPT !.live = FALSE].live = FALSE
  BY DEF LiveCalls, RequestVoteMessage
<1> QED BY <1>1, <1>2 DEF LiveCalls

-----------------------------------------------------------------------------
\* VoteInv through the steps

\* Steps that touch no vote and no call for one.
LEMMA VotesUnchanged ==
  ASSUME VoteInv, UNCHANGED <<voteReqs, voteReplies, votesReceived, grants>>
  PROVE  VoteInv'
  BY DEF VoteInv, OneCall, OneTerm, VotesAreGrants, VotesCounted, CountedVoters, Pending

\* A vote given, or refused, while its answer is still to be taken.
LEMMA VotesServed ==
  ASSUME TypeOK, VoteInv, NEW m \in voteReqs, ServeRequestVote(m)
  PROVE  VoteInv'
<1> DEFINE a == VoteAnswer(m.to, m)
<1>1. /\ a.from = m.from /\ a.to = m.to /\ a.sent = m.term
      /\ a.ok = Grants(m.to, m)
  BY DEF VoteAnswer
<1>2. /\ voteReqs' = voteReqs \ {m}
      /\ voteReplies' = IF m.live THEN voteReplies \cup {a} ELSE voteReplies
      /\ grants' = IF Grants(m.to, m) THEN grants \cup {<<m.to, m.from, m.term>>}
                                      ELSE grants
      /\ votesReceived' = votesReceived
  BY DEF ServeRequestVote, candidateVars
<1> HIDE DEF a
<1>3. OneCall' /\ OneTerm'
  BY <1>1, <1>2 DEF VoteInv, OneCall, OneTerm
<1>4. VotesAreGrants'
  BY <1>1, <1>2 DEF VoteInv, VotesAreGrants
<1>5. ASSUME NEW i \in Server, NEW j \in Server PROVE Pending(i, j)' <=> Pending(i, j)
  BY <1>1, <1>2 DEF VoteInv, OneCall, Pending
<1>6. ASSUME NEW i \in Server, NEW term \in Nat, VotesCounted(i, term)
      PROVE  VotesCounted(i, term)'
  <2>1. /\ CountedVoters(i, term) \subseteq CountedVoters(i, term)'
        /\ CountedVoters(i, term)' \subseteq Server
    BY <1>2, <1>5 DEF CountedVoters
  <2>2. /\ Cardinality(CountedVoters(i, term)) \in Nat
        /\ Cardinality(CountedVoters(i, term)') \in Nat
        /\ Cardinality(CountedVoters(i, term)) <= Cardinality(CountedVoters(i, term)')
    BY <2>1, MoreVoters
  <2> QED BY <1>2, <1>6, <2>2 DEF VotesCounted, TypeOK
<1>7. ASSUME NEW n \in voteReqs', n.live PROVE VotesCounted(n.from, n.term)'
  <2>1. n \in voteReqs /\ n.from \in Server /\ n.term \in Nat
    BY <1>2 DEF TypeOK, RequestVoteMessage
  <2> QED BY <1>6, <1>7, <2>1 DEF VoteInv
<1>8. ASSUME NEW r \in voteReplies' PROVE VotesCounted(r.from, r.sent)'
  <2>1. CASE r \in voteReplies
    <3>1. r.from \in Server /\ r.sent \in Nat BY <2>1 DEF TypeOK, VoteReply
    <3> QED BY <1>6, <2>1, <3>1 DEF VoteInv
  <2>2. CASE r = a /\ m.live
    <3>1. m.from \in Server /\ m.term \in Nat BY DEF TypeOK, RequestVoteMessage
    <3>2. VotesCounted(m.from, m.term) BY <2>2 DEF VoteInv
    <3>3. VotesCounted(m.from, m.term)' BY <1>6, <3>1, <3>2
    <3> QED BY <1>1, <2>2, <3>3
  <2> QED BY <1>2, <2>1, <2>2
<1> QED BY <1>3, <1>4, <1>7, <1>8 DEF VoteInv

\* The counter after a reply, against the voters no longer awaited.
LEMMA VotesTaken ==
  ASSUME TypeOK, VoteInv, NEW r \in voteReplies, TakeVoteReply(r)
  PROVE  /\ VoteInv'
         /\ VotesCounted(r.from, r.sent)'
<1> DEFINE i == r.from
           t == r.sent
<1>1. i \in Server /\ r.to \in Server /\ t \in Nat
  BY DEF TypeOK, VoteReply
<1>2. /\ voteReqs' = voteReqs /\ voteReplies' = voteReplies \ {r} /\ grants' = grants
      /\ votesReceived' = [votesReceived EXCEPT ![i] =
                             votesReceived[i] + (IF CountsAsVote(r) THEN 1 ELSE 0)]
  BY DEF TakeVoteReply
<1>3. OneCall' /\ OneTerm' /\ VotesAreGrants'
  BY <1>2 DEF VoteInv, OneCall, OneTerm, VotesAreGrants
<1>4. ASSUME NEW j \in Server, NEW v \in Server, Pending(j, v)'
      PROVE  Pending(j, v)
  BY <1>2, <1>4 DEF Pending
<1>5. Pending(i, r.to) /\ ~Pending(i, r.to)'
  BY <1>2 DEF Pending, VoteInv, OneCall
<1>6. ASSUME NEW j \in Server, NEW u \in Nat
      PROVE  /\ CountedVoters(j, u)' \in SUBSET Server
             /\ CountedVoters(j, u) \in SUBSET (CountedVoters(j, u)')
  BY <1>2, <1>4 DEF CountedVoters
<1>7. VotesCounted(i, t)'
  <2>1. VotesCounted(i, t) BY DEF VoteInv
  <2>2. CASE CountsAsVote(r)
    <3>1. <<r.to, i, t>> \in grants BY <2>2 DEF CountsAsVote, VoteInv, VotesAreGrants
    <3>2. r.to \in CountedVoters(i, t)' \ CountedVoters(i, t)
      BY <1>1, <1>2, <1>5, <3>1 DEF CountedVoters
    <3>3. Cardinality(CountedVoters(i, t)) + 1 <= Cardinality(CountedVoters(i, t)')
      BY <1>1, <1>6, <3>2, OneMoreVoter
    <3>4. votesReceived'[i] = votesReceived[i] + 1 /\ votesReceived[i] \in Nat
      BY <1>1, <1>2, <2>2 DEF TypeOK
    <3>5. /\ Cardinality(CountedVoters(i, t)) \in Nat
          /\ Cardinality(CountedVoters(i, t)') \in Nat
      BY <1>1, <1>6, MoreVoters
    <3> QED BY <1>1, <2>1, <3>3, <3>4, <3>5 DEF VotesCounted
  <2>3. CASE ~CountsAsVote(r)
    <3>1. votesReceived'[i] = votesReceived[i] /\ votesReceived[i] \in Nat
      BY <1>1, <1>2, <2>3 DEF TypeOK
    <3>2. /\ Cardinality(CountedVoters(i, t)) \in Nat
          /\ Cardinality(CountedVoters(i, t)') \in Nat
          /\ Cardinality(CountedVoters(i, t)) <= Cardinality(CountedVoters(i, t)')
      BY <1>1, <1>6, MoreVoters
    <3> QED BY <1>1, <2>1, <3>1, <3>2 DEF VotesCounted
  <2> QED BY <2>2, <2>3
<1>8. ASSUME NEW j \in Server, j # i, NEW u \in Nat, VotesCounted(j, u)
      PROVE  VotesCounted(j, u)'
  <2>1. votesReceived'[j] = votesReceived[j] /\ votesReceived[j] \in Nat
    BY <1>1, <1>2, <1>8 DEF TypeOK
  <2>2. /\ Cardinality(CountedVoters(j, u)) \in Nat
        /\ Cardinality(CountedVoters(j, u)') \in Nat
        /\ Cardinality(CountedVoters(j, u)) <= Cardinality(CountedVoters(j, u)')
    BY <1>6, MoreVoters
  <2> QED BY <1>8, <2>1, <2>2 DEF VotesCounted
<1>9. ASSUME NEW n \in voteReqs', n.live PROVE VotesCounted(n.from, n.term)'
  <2>1. n \in voteReqs /\ n.from \in Server /\ n.term \in Nat
    BY <1>2 DEF TypeOK, RequestVoteMessage
  <2>2. CASE n.from = i
    <3>1. n.term = t BY <1>9, <2>1, <2>2 DEF VoteInv, OneTerm
    <3> QED BY <1>7, <2>2, <3>1
  <2>3. CASE n.from # i
    <3>1. VotesCounted(n.from, n.term) BY <1>9, <2>1 DEF VoteInv
    <3> QED BY <1>8, <2>1, <2>3, <3>1
  <2> QED BY <2>2, <2>3
<1>10. ASSUME NEW s \in voteReplies' PROVE VotesCounted(s.from, s.sent)'
  <2>1. s \in voteReplies /\ s.from \in Server /\ s.sent \in Nat
    BY <1>2 DEF TypeOK, VoteReply
  <2>2. CASE s.from = i
    <3>1. s.sent = t BY <2>1, <2>2 DEF VoteInv, OneTerm
    <3> QED BY <1>7, <2>2, <3>1
  <2>3. CASE s.from # i
    <3>1. VotesCounted(s.from, s.sent) BY <2>1 DEF VoteInv
    <3> QED BY <1>8, <2>1, <2>3, <3>1
  <2> QED BY <2>2, <2>3
<1> QED BY <1>3, <1>7, <1>9, <1>10 DEF VoteInv

\* When i gives up its calls, and perhaps makes new ones, the counters of the
\* other servers stay as good as they were.
LEMMA VotesOfOthers ==
  ASSUME TypeOK, NEW i \in Server,
         \A m : m \in voteReqs' /\ m.live /\ m.from # i
                  <=> m \in voteReqs /\ m.live /\ m.from # i,
         voteReplies' = {r \in voteReplies : r.from # i},
         grants \subseteq grants',
         \A k \in Server \ {i} : votesReceived'[k] = votesReceived[k],
         NEW j \in Server \ {i}, NEW term \in Nat, VotesCounted(j, term)
  PROVE  VotesCounted(j, term)'
<1>1. ASSUME NEW v \in Server PROVE Pending(j, v)' <=> Pending(j, v)
  BY DEF Pending
<1>2. /\ CountedVoters(j, term)' \in SUBSET Server
      /\ CountedVoters(j, term) \in SUBSET (CountedVoters(j, term)')
  BY <1>1 DEF CountedVoters
<1>3. /\ Cardinality(CountedVoters(j, term)) \in Nat
      /\ Cardinality(CountedVoters(j, term)') \in Nat
      /\ Cardinality(CountedVoters(j, term)) <= Cardinality(CountedVoters(j, term)')
  BY <1>2, MoreVoters
<1>4. votesReceived[j] \in Nat /\ votesReceived'[j] = votesReceived[j]
  BY DEF TypeOK
<1> QED BY <1>3, <1>4 DEF VotesCounted

\* A server that leaves an identity without becoming a candidate.
LEMMA VotesLeft ==
  ASSUME TypeOK, VoteInv, NEW i \in Server, NEW target, LeaveQuietly(i, target)
  PROVE  VoteInv'
<1>1. ASSUME NEW m
      PROVE  m \in voteReqs' /\ m.live <=> m \in voteReqs /\ m.live /\ m.from # i
  BY AbandonOpen DEF LeaveQuietly, TypeOK
<1>2. /\ voteReplies' = {r \in voteReplies : r.from # i} /\ grants' = grants
      /\ votesReceived' = votesReceived
  BY DEF LeaveQuietly, Leave, CallsOf, candidateVars
<1>3. OneCall' /\ OneTerm' /\ VotesAreGrants'
  BY <1>1, <1>2 DEF VoteInv, OneCall, OneTerm, VotesAreGrants
<1>4. ASSUME NEW j \in Server \ {i}, NEW term \in Nat, VotesCounted(j, term)
      PROVE  VotesCounted(j, term)'
  BY <1>1, <1>2, <1>4, VotesOfOthers
<1>5. ASSUME NEW n \in voteReqs', n.live PROVE VotesCounted(n.from, n.term)'
  <2>1. n \in voteReqs /\ n.from \in Server \ {i} /\ n.term \in Nat
    BY <1>1, <1>5 DEF TypeOK, RequestVoteMessage
  <2> QED BY <1>4, <1>5, <2>1 DEF VoteInv
<1>6. ASSUME NEW r \in voteReplies' PROVE VotesCounted(r.from, r.sent)'
  <2>1. r \in voteReplies /\ r.from \in Server \ {i} /\ r.sent \in Nat
    BY <1>2 DEF TypeOK, VoteReply
  <2> QED BY <1>4, <2>1 DEF VoteInv
<1> QED BY <1>3, <1>5, <1>6 DEF VoteInv

\* A new candidate: one vote, its own, and an open call to everybody else.
LEMMA VotesRequested ==
  ASSUME TypeOK, VoteInv, NEW i \in Server, BecomeCandidate(i)
  PROVE  VoteInv'
<1>1. PICK term \in Nat : term = currentTerm[i] + 1 /\ term > 0
  BY DEF TypeOK, ServerTypeOK
<1>2. PICK new : new = {VoteRequest(i, j, term) : j \in Server \ {i}}
  OBVIOUS
<1>3. PICK rest \in Abandon(voteReqs, LiveCalls(voteReqs, i)) : voteReqs' = rest \cup new
  BY <1>1, <1>2 DEF BecomeCandidate
<1>4. /\ voteReplies' = {r \in voteReplies : r.from # i}
      /\ grants' = grants \cup {<<i, i, term>>}
      /\ votesReceived' = [votesReceived EXCEPT ![i] = 1]
  BY <1>1 DEF BecomeCandidate, Leave, CallsOf, VotesAtStart
<1>5. ASSUME NEW m \in new
      PROVE  /\ m.live /\ m.from = i /\ m.to \in Server \ {i} /\ m.term = term
             /\ m = VoteRequest(i, m.to, term)
  BY <1>2 DEF VoteRequest
<1>6. ASSUME NEW m
      PROVE  m \in voteReqs' /\ m.live
               <=> m \in new \/ (m \in voteReqs /\ m.live /\ m.from # i)
  BY <1>3, <1>5, AbandonOpen DEF TypeOK
<1>7. OneCall'
  BY <1>4, <1>5, <1>6 DEF VoteInv, OneCall
<1>8. OneTerm' /\ VotesAreGrants'
  BY <1>4, <1>5, <1>6 DEF VoteInv, OneTerm, VotesAreGrants
<1>9. ASSUME NEW j \in Server \ {i}, NEW t \in Nat, VotesCounted(j, t)
      PROVE  VotesCounted(j, t)'
  <2>1. \A k \in Server \ {i} : votesReceived'[k] = votesReceived[k]
    BY <1>4 DEF TypeOK
  <2>2. \A m : m \in voteReqs' /\ m.live /\ m.from # i
                 <=> m \in voteReqs /\ m.live /\ m.from # i
    BY <1>5, <1>6
  <2>3. grants \subseteq grants' BY <1>4
  <2> QED BY <1>4, <1>9, <2>1, <2>2, <2>3, VotesOfOthers
<1>10. VotesCounted(i, term)'
  <2>1. ~Pending(i, i)'
    BY <1>4, <1>5, <1>6 DEF Pending
  <2>2. i \in CountedVoters(i, term)' /\ CountedVoters(i, term)' \in SUBSET Server
    BY <1>4, <2>1 DEF CountedVoters
  <2>3. Cardinality({}) + 1 <= Cardinality(CountedVoters(i, term)')
    BY <2>2, OneMoreVoter
  <2>4. Cardinality({}) = 0 BY FS_EmptySet
  <2>5. votesReceived'[i] = 1 BY <1>4 DEF TypeOK
  <2> QED BY <1>1, <2>3, <2>4, <2>5 DEF VotesCounted
<1>11. ASSUME NEW n \in voteReqs', n.live PROVE VotesCounted(n.from, n.term)'
  <2>1. CASE n \in new
    BY <1>5, <1>10, <2>1
  <2>2. CASE n \in voteReqs /\ n.live /\ n.from # i
    <3>1. n.from \in Server \ {i} /\ n.term \in Nat
      BY <2>2 DEF TypeOK, RequestVoteMessage
    <3> QED BY <1>9, <2>2, <3>1 DEF VoteInv
  <2> QED BY <1>6, <1>11, <2>1, <2>2
<1>12. ASSUME NEW r \in voteReplies' PROVE VotesCounted(r.from, r.sent)'
  <2>1. r \in voteReplies /\ r.from \in Server \ {i} /\ r.sent \in Nat
    BY <1>4 DEF TypeOK, VoteReply
  <2> QED BY <1>9, <2>1 DEF VoteInv
<1> QED BY <1>7, <1>8, <1>11, <1>12 DEF VoteInv

\* VoteInv holds through every step.
LEMMA VoteStep ==
  ASSUME TypeOK, VoteInv, [Next]_vars
  PROVE  VoteInv'
<1> USE DEF voteCalls, candidateVars
<1>1. ASSUME NEW i \in Server, Expires(i) PROVE VoteInv'
  BY <1>1, VotesUnchanged DEF Expires
<1>2. ASSUME NEW i \in Server, Transform(i) PROVE VoteInv'
  BY <1>2, VotesLeft, VotesRequested
  DEF Transform, BecomeDown, BecomeFollower, BecomeLeader
<1>3. ASSUME NEW i \in Server, Stop(i) PROVE VoteInv'
  BY <1>3, VotesUnchanged DEF Stop
<1>4. ASSUME NEW i \in Server, Stopped(i) PROVE VoteInv'
  BY <1>4, VotesUnchanged DEF Stopped
<1>5. ASSUME NEW m \in voteReqs, ServeRequestVote(m) PROVE VoteInv'
  BY <1>5, VotesServed
<1>6. ASSUME NEW r \in voteReplies, TakeVoteReply(r) PROVE VoteInv'
  BY <1>6, VotesTaken
<1>7. ASSUME NEW i \in Server, NEW j \in Server, SendAppendEntries(i, j)
      PROVE  VoteInv'
  BY <1>7, VotesUnchanged DEF SendAppendEntries
<1>8. ASSUME NEW i \in Server, NEW j \in Server, SendAppendEntriesThrows(i, j)
      PROVE  VoteInv'
  BY <1>8, VotesUnchanged DEF SendAppendEntriesThrows, Abort
<1>9. ASSUME NEW m \in appendReqs, ServeAppendEntries(m) PROVE VoteInv'
  BY <1>9, VotesUnchanged DEF ServeAppendEntries
<1>10. ASSUME NEW r \in appendReplies, TakeAppendReply(r) PROVE VoteInv'
  BY <1>10, VotesUnchanged
  DEF TakeAppendReply, TakeAppendSuccess, TakeAppendSuccessCrashes, Abort,
      TakeAppendGreaterTerm, TakeAppendRejection
<1>11. ASSUME NEW i \in Server, NEW req \in Request, AddLog(i, req) PROVE VoteInv'
  BY <1>11, VotesUnchanged DEF AddLog
<1>12. ASSUME NEW i \in Server, AddLogState(i) PROVE VoteInv'
  BY <1>12, VotesUnchanged DEF AddLogState, serverVars
<1>13. ASSUME NEW i \in Server, NotifyTimeout(i) PROVE VoteInv'
  BY <1>13, VotesUnchanged DEF NotifyTimeout
<1>14. CASE UNCHANGED vars
  BY <1>14, VotesUnchanged DEF vars
<1> QED
  BY <1>1, <1>2, <1>3, <1>4, <1>5, <1>6, <1>7, <1>8, <1>9, <1>10, <1>11, <1>12, <1>13, <1>14
  DEF Next

\* No call for a vote is open at the start.
LEMMA VoteInit ==
  ASSUME Init
  PROVE  VoteInv
BY DEF Init, VoteInv, OneCall, OneTerm, VotesAreGrants

-----------------------------------------------------------------------------
\* QuorumInv through the steps

\* A majority of voters is not lost when more votes are given.
LEMMA QuorumGrows ==
  ASSUME grants \subseteq grants', NEW i \in Server, NEW term,
         Majority(Cardinality(Voters(i, term)))
  PROVE  Majority(Cardinality(Voters(i, term)'))
<1>1. /\ Voters(i, term)' \in SUBSET Server
      /\ Voters(i, term) \in SUBSET (Voters(i, term)')
  BY DEF Voters
<1> QED BY <1>1, MoreVoters

\* The same for the events of a queue.
LEMMA ElectedGrows ==
  ASSUME grants \subseteq grants', NEW i \in Server, NEW q, Elected(i, q)
  PROVE  Elected(i, q)'
<1>1. ASSUME NEW k \in 1..Len(q), q[k].to = "Leader"
      PROVE  q[k].term > 0 /\ Majority(Cardinality(Voters(i, q[k].term)'))
  BY <1>1, QuorumGrows DEF Elected
<1> QED BY <1>1 DEF Elected

\* A step that changes the queue and the identity of i only.
LEMMA QuorumOfOne ==
  ASSUME QuorumInv, grants \subseteq grants', NEW i \in Server,
         \A j \in Server \ {i} :
           queue'[j] = queue[j] /\ identity'[j] = identity[j] /\ since'[j] = since[j],
         NEW q, queue'[i] = q, Elected(i, q)',
         NEW term, since'[i] = term,
         identity'[i] = "Leader" => Majority(Cardinality(Voters(i, term)'))
  PROVE  QuorumInv'
<1>1. ASSUME NEW j \in Server \ {i}
      PROVE  /\ Elected(j, queue[j])'
             /\ (identity[j] = "Leader")' => Majority(Cardinality(Voters(j, since[j])'))
  <2>1. PICK p, t : p = queue[j] /\ t = since[j] OBVIOUS
  <2>2. Elected(j, p)' BY <2>1, ElectedGrows DEF QuorumInv
  <2>3. identity[j] = "Leader" => Majority(Cardinality(Voters(j, t)'))
    BY <2>1, QuorumGrows DEF QuorumInv
  <2>4. queue'[j] = p /\ since'[j] = t /\ identity'[j] = identity[j] BY <2>1
  <2>5. Elected(j, queue[j])' BY <2>2, <2>4 DEF Elected
  <2>6. (identity[j] = "Leader")' => Majority(Cardinality(Voters(j, since[j])'))
    BY <2>3, <2>4 DEF Voters
  <2> QED BY <2>5, <2>6
<1>2. Elected(i, queue[i])' BY DEF Elected
<1>3. (identity[i] = "Leader")' => Majority(Cardinality(Voters(i, since[i])'))
  BY DEF Voters
<1>4. \A j \in Server :
        /\ Elected(j, queue[j])'
        /\ (identity[j] = "Leader")' => Majority(Cardinality(Voters(j, since[j])'))
  BY <1>1, <1>2, <1>3
<1> QED BY <1>4 DEF QuorumInv, Majority

\* One more event, elected if it makes i a leader.
LEMMA ElectedAppend ==
  ASSUME NEW i \in Server, NEW q \in Seq(Event), NEW e \in Event, Elected(i, q)',
         e.to = "Leader" => e.term > 0 /\ Majority(Cardinality(Voters(i, e.term)'))
  PROVE  Elected(i, Append(q, e))'
<1>1. PICK p : p = Append(q, e) OBVIOUS
<1>2. /\ Len(p) = Len(q) + 1 /\ Len(q) \in Nat /\ p[Len(q) + 1] = e
      /\ \A k \in 1..Len(q) : p[k] = q[k]
  BY <1>1, AppendProperties
<1>3. ASSUME NEW k \in 1..Len(p), p[k].to = "Leader"
      PROVE  p[k].term > 0 /\ Majority(Cardinality(Voters(i, p[k].term)'))
  <2>1. CASE k \in 1..Len(q)
    <3>1. p[k] = q[k] BY <1>2, <2>1
    <3>2. q[k].term > 0 /\ Majority(Cardinality(Voters(i, q[k].term)'))
      BY <1>3, <2>1, <3>1 DEF Elected
    <3> QED BY <3>1, <3>2
  <2>2. CASE k = Len(q) + 1
    BY <1>2, <1>3, <2>2
  <2> QED BY <1>2, <2>1, <2>2
<1>4. Elected(i, p)' BY <1>3 DEF Elected
<1> QED BY <1>1, <1>4

\* The events behind the first.
LEMMA ElectedTail ==
  ASSUME NEW i \in Server, NEW q \in Seq(Event), q # <<>>, Elected(i, q)
  PROVE  /\ Elected(i, Tail(q))
         /\ Head(q).to = "Leader" =>
              Head(q).term > 0 /\ Majority(Cardinality(Voters(i, Head(q).term)))
<1>1. PICK t : t = Tail(q) OBVIOUS
<1>2. /\ Len(t) = Len(q) - 1 /\ Len(q) \in Nat /\ Len(q) > 0
      /\ \A k \in 1..Len(t) : t[k] = q[k + 1]
      /\ Head(q) = q[1]
  BY <1>1, HeadTailProperties
<1>3. ASSUME NEW k \in 1..Len(t), t[k].to = "Leader"
      PROVE  t[k].term > 0 /\ Majority(Cardinality(Voters(i, t[k].term)))
  <2>1. k + 1 \in 1..Len(q) /\ t[k] = q[k + 1] BY <1>2
  <2> QED BY <1>3, <2>1 DEF Elected
<1>4. Elected(i, t) BY <1>3 DEF Elected
<1>5. Head(q).to = "Leader" =>
        Head(q).term > 0 /\ Majority(Cardinality(Voters(i, Head(q).term)))
  <2>1. 1 \in 1..Len(q) BY <1>2
  <2> QED BY <1>2, <2>1 DEF Elected
<1> QED BY <1>1, <1>4, <1>5

\* Steps that leave queues and identities alone.
LEMMA QuorumUnchanged ==
  ASSUME QuorumInv, grants \subseteq grants', UNCHANGED <<queue, identity, since>>
  PROVE  QuorumInv'
<1>1. ASSUME NEW i \in Server PROVE QuorumInv'
  <2>1. PICK q, t : q = queue[i] /\ t = since[i] OBVIOUS
  <2>2. Elected(i, q)' BY <2>1, ElectedGrows DEF QuorumInv
  <2>3. identity[i] = "Leader" => Majority(Cardinality(Voters(i, t)'))
    BY <2>1, QuorumGrows DEF QuorumInv
  <2> QED BY <2>1, <2>2, <2>3, QuorumOfOne
<1>2. CASE Server = {} BY <1>2 DEF QuorumInv
<1> QED BY <1>1, <1>2

\* A transformation asked for; only an elected server asks to become a leader.
LEMMA QuorumNotify ==
  ASSUME TypeOK, QuorumInv, grants \subseteq grants', UNCHANGED <<identity, since>>,
         NEW i \in Server, NEW target \in Identity, NEW term \in Nat,
         Notify(i, target, term),
         target = "Leader" => term > 0 /\ Majority(Cardinality(Voters(i, term)'))
  PROVE  QuorumInv'
<1>1. PICK q, t : q = queue[i] /\ t = since[i] OBVIOUS
<1>2. q \in Seq(Event) BY <1>1 DEF TypeOK, ServerTypeOK
<1>3. Elected(i, q)' BY <1>1, ElectedGrows DEF QuorumInv
<1>4. PICK e \in Event : e.to = target /\ e.term = term /\ e = [to |-> target, term |-> term]
  BY DEF Event
<1>5. Elected(i, Append(q, e))'
  BY <1>2, <1>3, <1>4, ElectedAppend
<1>6. /\ queue'[i] = Append(q, e) \/ queue'[i] = q
      /\ \A j \in Server \ {i} : queue'[j] = queue[j]
  BY <1>1, <1>4 DEF Notify, Notified, TypeOK, ServerTypeOK
<1>7. identity[i] = "Leader" => Majority(Cardinality(Voters(i, t)'))
  BY <1>1, QuorumGrows DEF QuorumInv
<1>8. CASE queue'[i] = Append(q, e)
  <2>1. PICK p : p = Append(q, e) OBVIOUS
  <2>2. Elected(i, p)' /\ queue'[i] = p BY <1>5, <1>8, <2>1
  <2> QED BY <1>1, <1>6, <1>7, <2>2, QuorumOfOne
<1>9. CASE queue'[i] = q
  BY <1>1, <1>3, <1>6, <1>7, <1>9, QuorumOfOne
<1> QED BY <1>6, <1>8, <1>9

\* Leaving an identity; the queue ends up as q, made of the events left.
LEMMA QuorumLeave ==
  ASSUME TypeOK, TriggerInv, QuorumInv, grants \subseteq grants',
         NEW i \in Server, NEW target, Leave(i, target),
         \A j \in Server \ {i} : queue'[j] = queue[j],
         NEW q, queue'[i] = q, Elected(i, q)'
  PROVE  QuorumInv'
<1>1. queue[i] \in Seq(Event) /\ queue[i] # <<>>
  BY DEF Leave, TypeOK, ServerTypeOK
<1>2. \A j \in Server \ {i} : identity'[j] = identity[j] /\ since'[j] = since[j]
  BY TriggerLeave DEF Leave, TypeOK, ServerTypeOK
<1>3. PICK t : t = since'[i] OBVIOUS
<1>4. ASSUME identity'[i] = "Leader" PROVE Majority(Cardinality(Voters(i, t)'))
  <2>1. Head(queue[i]).to = "Leader"
    BY <1>4 DEF Leave, TypeOK, ServerTypeOK
  <2>2. /\ Head(queue[i]).term > 0
        /\ Majority(Cardinality(Voters(i, Head(queue[i]).term)))
    BY <1>1, <2>1, ElectedTail DEF QuorumInv
  <2>3. t = Head(queue[i]).term
    BY <1>3, <2>2, TriggerLeave
  <2> QED BY <2>2, <2>3, QuorumGrows
<1> QED BY <1>2, <1>3, <1>4, QuorumOfOne

\* Leaving an identity without becoming a candidate.
LEMMA QuorumLeft ==
  ASSUME TypeOK, TriggerInv, QuorumInv, NEW i \in Server, NEW target,
         LeaveQuietly(i, target)
  PROVE  QuorumInv'
<1>1. /\ Leave(i, target) /\ grants \subseteq grants'
      /\ queue'[i] = Tail(queue[i]) /\ \A j \in Server \ {i} : queue'[j] = queue[j]
  BY DEF LeaveQuietly, TypeOK, ServerTypeOK
<1>2. PICK q : q = Tail(queue[i]) OBVIOUS
<1>3. queue[i] \in Seq(Event) /\ queue[i] # <<>>
  BY <1>1 DEF Leave, TypeOK, ServerTypeOK
<1>4. Elected(i, q)
  BY <1>2, <1>3, ElectedTail DEF QuorumInv
<1>5. Elected(i, q)' BY <1>1, <1>4, ElectedGrows
<1> QED BY <1>1, <1>2, <1>5, QuorumLeave

\* Becoming a candidate; in a cluster of one its own vote is a majority.
LEMMA QuorumCandidate ==
  ASSUME TypeOK, TriggerInv, QuorumInv, NEW i \in Server, BecomeCandidate(i)
  PROVE  QuorumInv'
<1>1. PICK term \in Nat : term = currentTerm[i] + 1 /\ term > 0
  BY DEF TypeOK, ServerTypeOK
<1>2. PICK q : q = Tail(queue[i]) OBVIOUS
<1>3. PICK e \in Event : e.to = "Leader" /\ e.term = term
                         /\ e = [to |-> "Leader", term |-> term]
  BY DEF Event, Identity
<1>4. /\ Leave(i, "Candidate") /\ grants' = grants \cup {<<i, i, term>>}
      /\ \A j \in Server \ {i} : queue'[j] = queue[j]
      /\ \/ queue'[i] = q
         \/ queue'[i] = Append(q, e) /\ Majority(1)
  BY <1>1, <1>2, <1>3
  DEF BecomeCandidate, VotesAtStart, Notified, TypeOK, ServerTypeOK
<1>5. queue[i] \in Seq(Event) /\ queue[i] # <<>> /\ q \in Seq(Event)
  BY <1>2, <1>4, HeadTailProperties DEF Leave, TypeOK, ServerTypeOK
<1>6. grants \subseteq grants' BY <1>4
<1>7. Elected(i, q)'
  <2>1. Elected(i, q) BY <1>2, <1>5, ElectedTail DEF QuorumInv
  <2> QED BY <1>6, <2>1, ElectedGrows
<1>8. CASE queue'[i] = q
  BY <1>4, <1>6, <1>7, <1>8, QuorumLeave
<1>9. CASE queue'[i] = Append(q, e) /\ Majority(1)
  <2>1. i \in Voters(i, term)' /\ Voters(i, term)' \in SUBSET Server
    BY <1>4 DEF Voters
  <2>2. Cardinality({}) + 1 <= Cardinality(Voters(i, term)') /\ Cardinality({}) = 0
    BY <2>1, OneMoreVoter, FS_EmptySet
  <2>3. Cardinality(Voters(i, term)') \in Nat BY <2>1, MoreVoters
  <2>4. Majority(Cardinality(Voters(i, term)'))
    BY <1>9, <2>2, <2>3, MajorityUp
  <2>5. PICK p : p = Append(q, e) OBVIOUS
  <2>6. Elected(i, p)'
    BY <1>1, <1>3, <1>5, <1>7, <2>4, <2>5, ElectedAppend
  <2> QED BY <1>4, <1>6, <1>9, <2>5, <2>6, QuorumLeave
<1> QED BY <1>4, <1>8, <1>9

\* A vote taken; the counter does not exceed the votes given.
LEMMA QuorumTaken ==
  ASSUME TypeOK, VoteInv, QuorumInv, NEW r \in voteReplies, TakeVoteReply(r)
  PROVE  QuorumInv'
<1>1. r.from \in Server /\ r.sent \in Nat BY DEF TypeOK, VoteReply
<1>2. PICK i \in Server, term \in Nat : i = r.from /\ term = r.sent BY <1>1
<1>3. UNCHANGED <<identity, since>> /\ grants \subseteq grants'
  BY DEF TakeVoteReply
<1>4. CASE UNCHANGED triggerVars
  BY <1>3, <1>4, QuorumUnchanged DEF triggerVars
<1>5. CASE Notify(i, "Leader", term) /\ Majority(votesReceived'[i])
  <2>1. term > 0 /\ votesReceived'[i] <= Cardinality(CountedVoters(i, term)')
    BY <1>2, VotesTaken DEF VotesCounted
  <2>2. /\ CountedVoters(i, term)' \in SUBSET (Voters(i, term)')
        /\ Voters(i, term)' \in SUBSET Server
    BY DEF CountedVoters, Voters
  <2>3. /\ Cardinality(CountedVoters(i, term)') <= Cardinality(Voters(i, term)')
        /\ Cardinality(CountedVoters(i, term)') \in Nat
        /\ Cardinality(Voters(i, term)') \in Nat
    BY <2>2, MoreVoters
  <2>4. votesReceived'[i] \in Nat
    BY <1>2 DEF TakeVoteReply, TypeOK
  <2>5. votesReceived'[i] <= Cardinality(Voters(i, term)')
    BY <2>1, <2>3, <2>4
  <2>6. Majority(Cardinality(Voters(i, term)'))
    BY <1>5, <2>3, <2>4, <2>5, MajorityUp
  <2> QED BY <1>3, <1>5, <2>1, <2>6, QuorumNotify DEF Identity
<1>6. \/ UNCHANGED triggerVars
      \/ Notify(i, "Leader", term) /\ Majority(votesReceived'[i])
  BY <1>2 DEF TakeVoteReply, TypeOK
<1> QED BY <1>4, <1>5, <1>6

\* A process that ends leads no more and has no events.
LEMMA QuorumAbort ==
  ASSUME TypeOK, QuorumInv, NEW i \in Server, Abort(i)
  PROVE  QuorumInv'
<1>1. /\ queue'[i] = <<>> /\ identity'[i] = "Down" /\ grants \subseteq grants'
      /\ since' = since
      /\ \A j \in Server \ {i} : queue'[j] = queue[j] /\ identity'[j] = identity[j]
  BY DEF Abort, TypeOK, ServerTypeOK
<1>2. Elected(i, <<>>)' BY DEF Elected
<1>3. PICK t : since'[i] = t OBVIOUS
<1>4. PICK q : q = <<>> OBVIOUS
<1>5. Elected(i, q)' /\ queue'[i] = q BY <1>1, <1>2, <1>4
<1> QED BY <1>1, <1>3, <1>5, QuorumOfOne

\* QuorumInv holds through every step.
LEMMA QuorumStep ==
  ASSUME TypeOK, TriggerInv, VoteInv, QuorumInv, [Next]_vars
  PROVE  QuorumInv'
<1> USE DEF serverVars, triggerVars
<1>1. ASSUME NEW i \in Server, Expires(i) PROVE QuorumInv'
  BY <1>1, QuorumUnchanged DEF Expires
<1>2. ASSUME NEW i \in Server, Transform(i) PROVE QuorumInv'
  BY <1>2, QuorumLeft, QuorumCandidate
  DEF Transform, BecomeDown, BecomeFollower, BecomeLeader
<1>3. ASSUME NEW i \in Server, Stop(i) PROVE QuorumInv'
  <2>1. PICK q, t : q = queue[i] /\ t = since[i] OBVIOUS
  <2>2. PICK e \in Event : e = [to |-> "Down", term |-> 0] /\ e.to = "Down"
    <3>1. [to |-> "Down", term |-> 0] \in Event BY DEF Event, Identity
    <3> QED BY <3>1
  <2>3. /\ queue'[i] = Append(q, e) /\ UNCHANGED <<identity, since>>
        /\ grants \subseteq grants' /\ \A j \in Server \ {i} : queue'[j] = queue[j]
    BY <1>3, <2>1, <2>2 DEF Stop, TypeOK, ServerTypeOK
  <2>4. q \in Seq(Event) BY <2>1 DEF TypeOK, ServerTypeOK
  <2>5. Elected(i, q)' BY <2>1, <2>3, ElectedGrows DEF QuorumInv
  <2>6. PICK p : p = Append(q, e) OBVIOUS
  <2>7. Elected(i, p)' BY <2>2, <2>4, <2>5, <2>6, ElectedAppend
  <2>8. identity[i] = "Leader" => Majority(Cardinality(Voters(i, t)'))
    BY <2>1, <2>3, QuorumGrows DEF QuorumInv
  <2> QED BY <2>1, <2>3, <2>6, <2>7, <2>8, QuorumOfOne
<1>4. ASSUME NEW i \in Server, Stopped(i) PROVE QuorumInv'
  BY <1>4, QuorumUnchanged DEF Stopped
<1>5. ASSUME NEW m \in voteReqs, ServeRequestVote(m) PROVE QuorumInv'
  <2>1. m.to \in Server /\ m.term \in Nat BY DEF TypeOK, RequestVoteMessage
  <2>2. since' = since /\ grants \subseteq grants' BY <1>5 DEF ServeRequestVote
  <2>3. /\ identity' = identity
        /\ Notify(m.to, "Follower", m.term) \/ UNCHANGED <<queue, termTriggered>>
    BY <1>5 DEF ServeRequestVote, RPCRequestVote
  <2> QED BY <2>1, <2>2, <2>3, QuorumNotify, QuorumUnchanged DEF Identity
<1>6. ASSUME NEW r \in voteReplies, TakeVoteReply(r) PROVE QuorumInv'
  BY <1>6, QuorumTaken
<1>7. ASSUME NEW i \in Server, NEW j \in Server, SendAppendEntries(i, j)
      PROVE  QuorumInv'
  BY <1>7, QuorumUnchanged DEF SendAppendEntries
<1>8. ASSUME NEW i \in Server, NEW j \in Server, SendAppendEntriesThrows(i, j)
      PROVE  QuorumInv'
  BY <1>8, QuorumAbort DEF SendAppendEntriesThrows
<1>9. ASSUME NEW m \in appendReqs, ServeAppendEntries(m) PROVE QuorumInv'
  <2>1. m.to \in Server /\ m.term \in Nat BY DEF TypeOK, AppendEntriesMessage
  <2>2. since' = since /\ grants \subseteq grants' BY <1>9 DEF ServeAppendEntries
  <2>3. /\ identity' = identity
        /\ Notify(m.to, "Follower", m.term) \/ UNCHANGED <<queue, termTriggered>>
    BY <1>9 DEF ServeAppendEntries, RPCAppendEntries
  <2> QED BY <2>1, <2>2, <2>3, QuorumNotify, QuorumUnchanged DEF Identity
<1>10. ASSUME NEW r \in appendReplies, TakeAppendReply(r) PROVE QuorumInv'
  <2>1. r.from \in Server /\ r.term \in Nat BY DEF TypeOK, AppendReply
  <2>2. CASE TakeAppendSuccess(r)
    BY <2>2, QuorumUnchanged DEF TakeAppendSuccess
  <2>3. CASE TakeAppendSuccessCrashes(r)
    BY <2>1, <2>3, QuorumAbort DEF TakeAppendSuccessCrashes
  <2>4. CASE TakeAppendGreaterTerm(r)
    BY <2>1, <2>4, QuorumNotify DEF TakeAppendGreaterTerm, Identity
  <2>5. CASE TakeAppendRejection(r)
    BY <2>5, QuorumUnchanged DEF TakeAppendRejection
  <2> QED BY <1>10, <2>2, <2>3, <2>4, <2>5 DEF TakeAppendReply
<1>11. ASSUME NEW i \in Server, NEW req \in Request, AddLog(i, req) PROVE QuorumInv'
  BY <1>11, QuorumUnchanged DEF AddLog
<1>12. ASSUME NEW i \in Server, AddLogState(i) PROVE QuorumInv'
  BY <1>12, QuorumUnchanged DEF AddLogState, serverVars
<1>13. ASSUME NEW i \in Server, NotifyTimeout(i) PROVE QuorumInv'
  <2>1. PICK term \in expiring[i] : Notify(i, "Candidate", term)
    BY <1>13 DEF NotifyTimeout
  <2>2. term \in Nat BY DEF TypeOK
  <2>3. UNCHANGED <<identity, since>> /\ grants \subseteq grants'
    BY <1>13 DEF NotifyTimeout
  <2> QED BY <2>1, <2>2, <2>3, QuorumNotify DEF Identity
<1>14. CASE UNCHANGED vars
  BY <1>14, QuorumUnchanged DEF vars
<1> QED
  BY <1>1, <1>2, <1>3, <1>4, <1>5, <1>6, <1>7, <1>8, <1>9, <1>10, <1>11, <1>12, <1>13, <1>14
  DEF Next

\* Nobody leads at the start.
LEMMA QuorumInit ==
  ASSUME Init
  PROVE  QuorumInv
<1>1. ASSUME NEW i \in Server
      PROVE  /\ Len(queue[i]) = 1 /\ queue[i][1].to = "Follower"
             /\ identity[i] = "Down"
  BY DEF Init, InitServer
<1> QED BY <1>1 DEF QuorumInv, Elected

\* Every leader has a quorum: whatever calls are lost, late or repeated, and
\* however votes race timeouts and step downs, a server becomes leader only
\* with the votes of more than half of the cluster for the term it was
\* elected in.
THEOREM LeadersAreElected == Spec => []LeaderHasQuorum
<1> DEFINE Inv == TypeOK /\ TriggerInv /\ VoteInv /\ QuorumInv
<1>1. Init => Inv
  BY TypeInit, TriggerInit, VoteInit, QuorumInit
<1>2. Inv /\ [Next]_vars => Inv'
  BY TypeStep, TriggerStep, VoteStep, QuorumStep
<1>3. Inv => LeaderHasQuorum
  BY DEF QuorumInv, Elected, LeaderHasQuorum
<1> QED BY <1>1, <1>2, <1>3, PTL DEF Spec

(***************************************************************************)
(* What is committed is applied: the property itself is inductive, since    *)
(* whatever raises commitIdx ends with applyReadyEntries.                   *)
(***************************************************************************)

\* applyReadyEntries reaches the commit index and hands over one entry per index.
LEMMA AppliedUpTo ==
  ASSUME TypeOK, CommittedIsApplied, NEW i \in Server, NEW log, NEW c \in Nat,
         commitIdx' = [commitIdx EXCEPT ![i] = c], ApplyReadyEntries(i, log, c)
  PROVE  CommittedIsApplied'
<1> DEFINE n == Ready(i, c)
           more == [k \in 1..n |-> RequestAt(log, lastApplied[i] + k)]
<1>1. lastApplied[i] \in Nat /\ applied[i] \in Seq(Label)
  BY DEF TypeOK, ServerTypeOK
<1>2. n \in Nat /\ c <= lastApplied[i] + n
  BY <1>1 DEF Ready
<1>3. Len(applied[i] \o more) = lastApplied[i] + n
  <2>1. more \in Seq({RequestAt(log, lastApplied[i] + k) : k \in 1..n})
    BY <1>2
  <2>2. Len(more) = n BY <1>2
  <2>3. Len(applied[i] \o more) = Len(applied[i]) + Len(more)
    <3> DEFINE S == Label \cup {RequestAt(log, lastApplied[i] + k) : k \in 1..n}
    <3>1. applied[i] \in Seq(S) /\ more \in Seq(S) BY <1>1, <2>1
    <3> HIDE DEF more, S
    <3> QED BY <3>1, ConcatProperties
  <2>4. Len(applied[i]) = lastApplied[i] BY DEF CommittedIsApplied
  <2> QED BY <2>2, <2>3, <2>4
<1> HIDE DEF n, more
<1>4. /\ lastApplied' = [lastApplied EXCEPT ![i] = lastApplied[i] + n]
      /\ applied' = [applied EXCEPT ![i] = applied[i] \o more]
  BY DEF ApplyReadyEntries, n, more
<1>5. ASSUME NEW j \in Server
      PROVE  commitIdx'[j] <= lastApplied'[j] /\ Len(applied'[j]) = lastApplied'[j]
  <2>1. CASE j = i
    BY <1>2, <1>3, <1>4, <2>1 DEF TypeOK, ServerTypeOK
  <2>2. CASE j # i
    BY <1>4, <2>2 DEF CommittedIsApplied, TypeOK, ServerTypeOK
  <2> QED BY <2>1, <2>2
<1> QED BY <1>5 DEF CommittedIsApplied

\* A step that neither commits nor applies.
LEMMA AppliedUnchanged ==
  ASSUME CommittedIsApplied, UNCHANGED <<commitIdx, lastApplied, applied>>
  PROVE  CommittedIsApplied'
BY DEF CommittedIsApplied

\* The commit index a handler ends with is applied.
LEMMA AppliedServe ==
  ASSUME TypeOK, CommittedIsApplied, NEW m \in appendReqs, ServeAppendEntries(m)
  PROVE  CommittedIsApplied'
<1> DEFINE i == m.to
<1>1. i \in Server /\ m \in AppendEntriesMessage
  BY DEF TypeOK, AppendEntriesMessage
<1>2. CASE identity[i] = "Down" \/ IgnoresAppend(i, m)
  BY <1>2, AppliedUnchanged
  DEF ServeAppendEntries, RPCAppendEntries, serverVars, logVars, applyVars
<1>3. CASE ~(identity[i] = "Down" \/ IgnoresAppend(i, m))
  <2> DEFINE log == IF Accepts(i, m) THEN Merge(entries[i], m) ELSE entries[i]
             commit == IF Accepts(i, m) THEN CommitAfter(i, m, Len(log))
                                        ELSE commitIdx[i]
  <2>1. /\ commitIdx' = [commitIdx EXCEPT ![i] = commit]
        /\ ApplyReadyEntries(i, log, commit)
    BY <1>3 DEF ServeAppendEntries, RPCAppendEntries
  <2>2. commit \in Nat
    <3>1. commitIdx'[i] = commit BY <1>1, <2>1 DEF TypeOK, ServerTypeOK
    <3>2. TypeOK' BY TypeStep DEF Next
    <3> QED BY <1>1, <3>1, <3>2 DEF TypeOK, ServerTypeOK
  <2> HIDE DEF log, commit
  <2> QED BY <1>1, <2>1, <2>2, AppliedUpTo
<1> QED BY <1>2, <1>3

\* So is what the count of replicas commits.
LEMMA AppliedCounted ==
  ASSUME TypeOK, CommittedIsApplied, NEW r \in appendReplies, TakeAppendSuccess(r)
  PROVE  CommittedIsApplied'
<1> DEFINE i == r.from
<1>1. i \in Server /\ commitIdx[i] \in Nat /\ replicateNum[i] \in Seq(Nat)
  BY DEF TypeOK, ServerTypeOK, AppendReply
<1>2. PICK c \in {commitIdx[i]} \cup Counted(i, r) :
        /\ commitIdx' = [commitIdx EXCEPT ![i] = c]
        /\ ApplyReadyEntries(i, entries[i], c)
  BY DEF TakeAppendSuccess
<1>3. c \in Nat BY <1>1, <1>2 DEF Counted
<1> QED BY <1>1, <1>2, <1>3, AppliedUpTo

\* A vote applies what is committed and commits nothing.
LEMMA AppliedVote ==
  ASSUME TypeOK, CommittedIsApplied, NEW m \in voteReqs, ServeRequestVote(m)
  PROVE  CommittedIsApplied'
<1> DEFINE i == m.to
<1>1. i \in Server /\ commitIdx[i] \in Nat
  BY DEF TypeOK, ServerTypeOK, RequestVoteMessage
<1>2. CASE identity[i] = "Down"
  BY <1>2, AppliedUnchanged
  DEF ServeRequestVote, RPCRequestVote, serverVars, logVars, applyVars
<1>3. CASE identity[i] # "Down"
  <2>1. commitIdx' = commitIdx /\ ApplyReadyEntries(i, entries[i], commitIdx[i])
    BY <1>3 DEF ServeRequestVote, RPCRequestVote, logVars
  <2>2. commitIdx' = [commitIdx EXCEPT ![i] = commitIdx[i]]
    BY <2>1 DEF TypeOK, ServerTypeOK
  <2> QED BY <1>1, <2>1, <2>2, AppliedUpTo
<1> QED BY <1>2, <1>3

\* Every step leaves nothing committed behind.
LEMMA AppliedStep ==
  ASSUME TypeOK, CommittedIsApplied, [Next]_vars
  PROVE  CommittedIsApplied'
<1> USE DEF serverVars, logVars, applyVars
<1>1. ASSUME NEW i \in Server,
             \/ Expires(i) \/ NotifyTimeout(i)
             \/ AddLogState(i) \/ Stop(i) \/ Stopped(i)
      PROVE  CommittedIsApplied'
  BY <1>1, AppliedUnchanged DEF Expires, NotifyTimeout, AddLogState, Stop, Stopped
<1>2. ASSUME NEW i \in Server, Transform(i) PROVE CommittedIsApplied'
  <2>1. PICK target \in Identity : Leave(i, target)
    BY <1>2 DEF Transform, BecomeDown, BecomeFollower, BecomeLeader, BecomeCandidate,
                LeaveQuietly, Identity
  <2> QED BY <2>1, AppliedUnchanged DEF Leave
<1>3. ASSUME NEW m \in voteReqs, ServeRequestVote(m) PROVE CommittedIsApplied'
  BY <1>3, AppliedVote
<1>4. ASSUME NEW r \in voteReplies, TakeVoteReply(r) PROVE CommittedIsApplied'
  BY <1>4, AppliedUnchanged DEF TakeVoteReply
<1>5. ASSUME NEW i \in Server, NEW j \in Server,
             SendAppendEntries(i, j) \/ SendAppendEntriesThrows(i, j)
      PROVE  CommittedIsApplied'
  BY <1>5, AppliedUnchanged DEF SendAppendEntries, SendAppendEntriesThrows, Abort
<1>6. ASSUME NEW m \in appendReqs, ServeAppendEntries(m) PROVE CommittedIsApplied'
  BY <1>6, AppliedServe
<1>7. ASSUME NEW r \in appendReplies, TakeAppendReply(r) PROVE CommittedIsApplied'
  <2>1. CASE TakeAppendSuccess(r) BY <2>1, AppliedCounted
  <2>2. CASE TakeAppendSuccessCrashes(r)
    BY <2>2, AppliedUnchanged DEF TakeAppendSuccessCrashes, Abort
  <2>3. CASE TakeAppendGreaterTerm(r)
    BY <2>3, AppliedUnchanged DEF TakeAppendGreaterTerm
  <2>4. CASE TakeAppendRejection(r)
    BY <2>4, AppliedUnchanged DEF TakeAppendRejection
  <2> QED BY <1>7, <2>1, <2>2, <2>3, <2>4 DEF TakeAppendReply
<1>8. ASSUME NEW i \in Server, NEW req \in Request, AddLog(i, req)
      PROVE  CommittedIsApplied'
  BY <1>8, AppliedUnchanged DEF AddLog
<1>9. CASE UNCHANGED vars
  BY <1>9, AppliedUnchanged DEF vars
<1> QED
  BY <1>1, <1>2, <1>3, <1>4, <1>5, <1>6, <1>7, <1>8, <1>9 DEF Next

\* Nothing committed is left waiting when a handler or an append thread ends, in
\* every execution, one in which a later leader cuts the log below commitIdx
\* included: each exit runs applyReadyEntries.
THEOREM NothingCommittedWaits == Spec => []CommittedIsApplied
<1>1. Init => TypeOK /\ CommittedIsApplied
  <2>1. Init => CommittedIsApplied BY DEF Init, InitServer, CommittedIsApplied
  <2> QED BY <2>1, TypeInit
<1>2. TypeOK /\ CommittedIsApplied /\ [Next]_vars => (TypeOK /\ CommittedIsApplied)'
  BY TypeStep, AppliedStep
<1> QED BY <1>1, <1>2, PTL DEF Spec
=============================================================================
