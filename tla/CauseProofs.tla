----------------------------- MODULE CauseProofs -----------------------------
(***************************************************************************)
(* Four promises that quintet does not keep, and what breaks them: each is  *)
(* kept, for every cluster and every bound, in all executions without one   *)
(* kind of step.  Two servers lead in one term only after checkRpcTerm has  *)
(* lowered a term; with one contender, an entry is applied that a majority  *)
(* has not got only after the count loop of tryAppendEntries has counted a  *)
(* reply for entries that were not in the message; a server waits without a *)
(* timer only after notify has refused its timeout; and one that was        *)
(* stopped is not down only after an event was queued behind that of Stop.  *)
(***************************************************************************)
EXTENDS OneContenderProofs

-----------------------------------------------------------------------------
(***************************************************************************)
(* One vote per term: votedFor is not reset when a term begins, and need    *)
(* not be, as long as terms only rise.                                      *)
(***************************************************************************)

\* A voter has not voted in a later term than its own, and votedFor tells for
\* whom it has voted in that.
VotesRemembered ==
  \A v, c \in Server, t \in Nat :
    <<v, c, t>> \in grants =>
      t <= currentTerm[v] /\ (t = currentTerm[v] => votedFor[v] = c)

OneVotePerTerm ==
  \A v, c, d \in Server, t \in Nat :
    <<v, c, t>> \in grants /\ <<v, d, t>> \in grants => c = d

VoteOnceInv == VotesRemembered /\ OneVotePerTerm

\* Where nobody votes.
LEMMA NoVote ==
  ASSUME TypeOK, TypeOK', VoteOnceInv, TermsRise,
         grants' = grants, votedFor' = votedFor
  PROVE  VoteOnceInv'
<1>1. OneVotePerTerm' BY DEF VoteOnceInv, OneVotePerTerm
<1>2. ASSUME NEW v \in Server, NEW c \in Server, NEW t \in Nat, <<v, c, t>> \in grants'
      PROVE  t <= currentTerm'[v] /\ (t = currentTerm'[v] => votedFor'[v] = c)
  <2>1. /\ currentTerm[v] \in Nat /\ currentTerm'[v] \in Nat
        /\ currentTerm[v] <= currentTerm'[v]
    BY DEF TypeOK, ServerTypeOK, TermsRise
  <2>2. t <= currentTerm[v] /\ (t = currentTerm[v] => votedFor[v] = c)
    BY <1>2 DEF VoteOnceInv, VotesRemembered
  <2> QED BY <2>1, <2>2
<1> QED BY <1>1, <1>2 DEF VoteOnceInv, VotesRemembered

\* v votes for c in term t, which is its term from then on.
LEMMA Voted ==
  ASSUME TypeOK, TypeOK', VoteOnceInv, NEW v \in Server, NEW c \in Server, NEW t \in Nat,
         \/ currentTerm[v] < t
         \/ currentTerm[v] = t /\ votedFor[v] \in {Nil, c},
         grants' = grants \cup {<<v, c, t>>},
         currentTerm' = [currentTerm EXCEPT ![v] = t],
         votedFor' = [votedFor EXCEPT ![v] = c]
  PROVE  VoteOnceInv'
<1>1. /\ \A w \in Server : currentTerm[w] \in Nat
      /\ currentTerm'[v] = t /\ votedFor'[v] = c /\ Nil \notin Server
      /\ \A w \in Server \ {v} :
           currentTerm'[w] = currentTerm[w] /\ votedFor'[w] = votedFor[w]
  BY ServerAssumption DEF TypeOK, ServerTypeOK
<1>2. \A w, d \in Server, u \in Nat :
        <<w, d, u>> \in grants' => <<w, d, u>> \in grants \/ (w = v /\ d = c /\ u = t)
  OBVIOUS
<1>3. ASSUME NEW d \in Server, <<v, d, t>> \in grants PROVE d = c
  <2>1. t <= currentTerm[v] /\ (t = currentTerm[v] => votedFor[v] = d)
    BY <1>3 DEF VoteOnceInv, VotesRemembered
  <2> QED BY <1>1, <2>1
<1>4. ASSUME NEW w \in Server, NEW d \in Server, NEW u \in Nat, <<w, d, u>> \in grants'
      PROVE  u <= currentTerm'[w] /\ (u = currentTerm'[w] => votedFor'[w] = d)
  <2>1. CASE w = v /\ d = c /\ u = t BY <1>1, <2>1
  <2>2. CASE <<w, d, u>> \in grants
    <3>1. u <= currentTerm[w] /\ (u = currentTerm[w] => votedFor[w] = d)
      BY <2>2 DEF VoteOnceInv, VotesRemembered
    <3>2. CASE w # v BY <1>1, <3>1, <3>2
    <3>3. CASE w = v
      <4>1. u <= t BY <1>1, <3>1, <3>3
      <4>2. u = t => d = c BY <1>3, <2>2, <3>3
      <4> QED BY <1>1, <3>3, <4>1, <4>2
    <3> QED BY <3>2, <3>3
  <2> QED BY <1>2, <1>4, <2>1, <2>2
<1>5. ASSUME NEW w \in Server, NEW d \in Server, NEW e \in Server, NEW u \in Nat,
             <<w, d, u>> \in grants', <<w, e, u>> \in grants'
      PROVE  d = e
  <2>1. CASE <<w, d, u>> \in grants /\ <<w, e, u>> \in grants
    BY <2>1 DEF VoteOnceInv, OneVotePerTerm
  <2>2. CASE w = v /\ d = c /\ u = t BY <1>2, <1>3, <1>5, <2>2
  <2>3. CASE w = v /\ e = c /\ u = t BY <1>2, <1>3, <1>5, <2>3
  <2> QED BY <1>2, <1>5, <2>1, <2>2, <2>3
<1> QED BY <1>4, <1>5 DEF VoteOnceInv, VotesRemembered, OneVotePerTerm

\* A handler that votes does so in the term of the message, and that is the
\* voter's term already or a greater one.
LEMMA VoteServed ==
  ASSUME TypeOK, TypeOK', VoteOnceInv, TermsRise,
         NEW m \in voteReqs, ServeRequestVote(m)
  PROVE  VoteOnceInv'
<1> DEFINE i == m.to
<1>1. /\ i \in Server /\ m.from \in Server /\ m.term \in Nat /\ currentTerm[i] \in Nat
      /\ currentTerm'[i] \in Nat
  BY DEF TypeOK, ServerTypeOK, RequestVoteMessage
<1>2. CASE ~Grants(i, m)
  <2>1. grants' = grants /\ votedFor' = votedFor
    BY <1>1, <1>2 DEF ServeRequestVote, RPCRequestVote, serverVars, TypeOK, ServerTypeOK
  <2> QED BY <2>1, NoVote
<1>3. CASE Grants(i, m)
  <2>1. /\ currentTerm' = [currentTerm EXCEPT ![i] = TermAfterVote(i, m)]
        /\ votedFor' = [votedFor EXCEPT ![i] = m.from]
        /\ grants' = grants \cup {<<i, m.from, m.term>>}
    BY <1>1, <1>3 DEF ServeRequestVote, RPCRequestVote, Grants, TypeOK, ServerTypeOK
  <2>2. TermAfterVote(i, m) = m.term
    BY <1>3 DEF Grants, TermAfterVote, CanVote
  <2>3. currentTerm[i] <= m.term
    BY <1>1, <2>1, <2>2 DEF TermsRise, TypeOK, ServerTypeOK
  <2>4. m.term = currentTerm[i] => votedFor[i] \in {Nil, m.from}
    BY <1>1, <1>3 DEF Grants, VoteGreater, CheckedTerm, AheadOf, CanVote
  <2> DEFINE c == m.from
             t == m.term
  <2>5. /\ i \in Server /\ c \in Server /\ t \in Nat
        /\ currentTerm[i] < t \/ (currentTerm[i] = t /\ votedFor[i] \in {Nil, c})
    BY <1>1, <2>3, <2>4
  <2>6. /\ grants' = grants \cup {<<i, c, t>>}
        /\ currentTerm' = [currentTerm EXCEPT ![i] = t]
        /\ votedFor' = [votedFor EXCEPT ![i] = c]
    BY <2>1, <2>2
  <2> HIDE DEF i, c, t
  <2> QED BY <2>5, <2>6, Voted
<1> QED BY <1>2, <1>3

LEMMA VoteOnceStep ==
  ASSUME TypeOK, TypeOK', VoteOnceInv, TermsRise, [Next]_vars
  PROVE  VoteOnceInv'
<1> USE DEF serverVars
<1>1. ASSUME NEW m \in voteReqs, ServeRequestVote(m) PROVE VoteOnceInv'
  BY <1>1, VoteServed
<1>2. ASSUME NEW i \in Server, BecomeCandidate(i) PROVE VoteOnceInv'
  <2>1. currentTerm[i] \in Nat BY DEF TypeOK, ServerTypeOK
  <2> DEFINE t == currentTerm[i] + 1
  <2>2. t \in Nat /\ currentTerm[i] < t BY <2>1
  <2>3. /\ currentTerm' = [currentTerm EXCEPT ![i] = t]
        /\ votedFor' = [votedFor EXCEPT ![i] = i]
        /\ grants' = grants \cup {<<i, i, t>>}
    BY <1>2 DEF BecomeCandidate
  <2> HIDE DEF t
  <2> QED BY <2>2, <2>3, Voted
<1>3. ASSUME NEW i \in Server, BecomeDown(i) \/ BecomeFollower(i) \/ BecomeLeader(i)
      PROVE  VoteOnceInv'
  BY <1>3, NoVote DEF BecomeDown, BecomeFollower, BecomeLeader, LeaveQuietly
<1>4. ASSUME NEW m \in appendReqs, ServeAppendEntries(m) PROVE VoteOnceInv'
  BY <1>4, NoVote DEF ServeAppendEntries, RPCAppendEntries
<1>5. ASSUME NEW r \in appendReplies, TakeAppendReply(r) PROVE VoteOnceInv'
  BY <1>5, NoVote DEF TakeAppendReply, TakeAppendSuccess, TakeAppendSuccessCrashes,
                      TakeAppendGreaterTerm, TakeAppendRejection, Abort
<1>6. ASSUME \/ \E i \in Server : \/ Expires(i) \/ NotifyTimeout(i)
                                \/ AddLogState(i) \/ Stop(i) \/ Stopped(i)
             \/ \E r \in voteReplies : TakeVoteReply(r)
             \/ \E i, j \in Server :
                  SendAppendEntries(i, j) \/ SendAppendEntriesThrows(i, j)
             \/ \E i \in Server, req \in Request : AddLog(i, req)
             \/ UNCHANGED vars
      PROVE  VoteOnceInv'
  BY <1>6, NoVote DEF Expires, NotifyTimeout, AddLogState, Stop, Stopped, TakeVoteReply,
                      SendAppendEntries, SendAppendEntriesThrows, Abort, AddLog, vars
<1> QED BY <1>1, <1>2, <1>3, <1>4, <1>5, <1>6 DEF Next, Transform

\* Two majorities have a server in common.
LEMMA MajoritiesMeet ==
  ASSUME NEW S \in SUBSET Server, NEW T \in SUBSET Server,
         Majority(Cardinality(S)), Majority(Cardinality(T))
  PROVE  \E v \in S : v \in T
<1>1. /\ IsFiniteSet(Server) /\ Cardinality(Server) \in Nat
      /\ Cardinality(S) \in Nat /\ Cardinality(T) \in Nat
  BY ServerAssumption, FS_CardinalityType, FS_Subset
<1>2. Cardinality(S) + Cardinality(T) > Cardinality(Server)
  <2> DEFINE n == Cardinality(Server)
             a == Cardinality(S)
             b == Cardinality(T)
  <2>1. n \in Nat /\ a \in Nat /\ b \in Nat /\ a > n \div 2 /\ b > n \div 2
    BY <1>1 DEF Majority
  <2> HIDE DEF n, a, b
  <2>2. 2 * (n \div 2) + 1 >= n BY <2>1
  <2>3. a + b > n BY <2>1, <2>2
  <2> QED BY <2>3 DEF n, a, b
<1>3. S \cap T # {} BY <1>1, <1>2, FS_MajoritiesIntersect
<1> QED BY <1>3

\* No two servers lead in the term they were both elected in, unless checkRpcTerm
\* has lowered a term on a message of an older one: only then can a server vote
\* twice in one term.
THEOREM LoweringElectsTwo == Spec /\ [][TermsRise]_vars => []ElectionSafety
<1> DEFINE Inv == TypeOK /\ TriggerInv /\ VoteInv /\ QuorumInv /\ VoteOnceInv
<1>1. Init => Inv
  <2>1. Init => VoteOnceInv
    BY DEF Init, VoteOnceInv, VotesRemembered, OneVotePerTerm
  <2> QED BY <2>1, TypeInit, TriggerInit, VoteInit, QuorumInit
<1>2. Inv /\ [Next]_vars /\ [TermsRise]_vars => Inv'
  <2> SUFFICES ASSUME Inv, [Next]_vars, [TermsRise]_vars PROVE Inv'
    OBVIOUS
  <2>1. TypeOK' /\ TriggerInv' /\ VoteInv' /\ QuorumInv'
    BY TypeStep, TriggerStep, VoteStep, QuorumStep
  <2>2. TermsRise
    <3>1. CASE UNCHANGED vars
      BY <3>1 DEF vars, serverVars, TermsRise, TypeOK, ServerTypeOK
    <3> QED BY <3>1
  <2> QED BY <2>1, <2>2, VoteOnceStep
<1>3. Inv => ElectionSafety
  <2> SUFFICES ASSUME Inv, NEW i \in Server, NEW j \in Server,
                      identity[i] = "Leader", identity[j] = "Leader", since[i] = since[j]
               PROVE  i = j
    BY DEF ElectionSafety
  <2> DEFINE t == since[i]
  <2>1. t \in Nat /\ since[j] = t BY DEF TypeOK
  <2>2. Majority(Cardinality(Voters(i, t))) /\ Majority(Cardinality(Voters(j, t)))
    BY DEF QuorumInv
  <2>3. PICK v \in Voters(i, t) : v \in Voters(j, t)
    <3>1. Voters(i, t) \in SUBSET Server /\ Voters(j, t) \in SUBSET Server
      BY DEF Voters
    <3> QED BY <2>2, <3>1, MajoritiesMeet
  <2>4. v \in Server /\ <<v, i, t>> \in grants /\ <<v, j, t>> \in grants
    BY <2>3 DEF Voters
  <2> QED BY <2>1, <2>4 DEF VoteOnceInv, OneVotePerTerm
<1> QED BY <1>1, <1>2, <1>3, PTL DEF Spec

-----------------------------------------------------------------------------
(***************************************************************************)
(* No entry is committed that a majority has not got: replicateNum counts    *)
(* followers that have the entry, as long as a reply is counted for no entry *)
(* beyond those of its message.                                              *)
(***************************************************************************)

\* The followers that l knows to have entry k, and the servers that have it.
Matched(l, k) == {j \in Server \ {l} : matchIdx[l][j] >= k}

Holders(k) == {j \in Server : Len(entries[j]) >= k}

CountsMatched(l) ==
  \A k \in 1..Len(replicateNum[l]) :
    replicateNum[l][k] <= 1 + Cardinality(Matched(l, k))

CommittedIsHeld(l) ==
  \A k \in 1..commitIdx[l] : Majority(Cardinality(Holders(k)))

\* l is the first to commit, and the others commit what its messages tell them.
CommitsFirst(l) ==
  /\ \A i \in Server : lastApplied[i] <= commitIdx[l] /\ commitIdx[i] <= commitIdx[l]
  /\ \A m \in appendReqs : m.commitIdx <= commitIdx[l]

ReplicaInv(l) == CountsMatched(l) /\ CommittedIsHeld(l) /\ CommitsFirst(l)

\* Who has an entry has those before it, and keeps it.
LEMMA HoldersMore ==
  ASSUME TypeOK, TypeOK', \A i \in Server : Len(entries[i]) <= Len(entries'[i]),
         NEW c \in Nat, NEW k \in Nat, k <= c, Majority(Cardinality(Holders(c)))
  PROVE  Majority(Cardinality(Holders(k)'))
<1>1. \A i \in Server : Len(entries[i]) \in Nat /\ Len(entries'[i]) \in Nat
  BY LenProperties DEF TypeOK, ServerTypeOK
<1>2. Holders(k)' \in SUBSET Server /\ Holders(c) \in SUBSET Holders(k)'
  BY <1>1 DEF Holders
<1> QED BY <1>2, MoreVoters

\* l and the followers that it has got to know to have entry k have it.
LEMMA MatchedHold ==
  ASSUME TypeOK', NEW l \in Server, MatchInv(l)', NEW k \in Nat, k <= Len(entries'[l]),
         NEW n \in Nat, n <= 1 + Cardinality(Matched(l, k)'), Majority(n)
  PROVE  Majority(Cardinality(Holders(k)'))
<1> DEFINE S == Matched(l, k)'
           T == Holders(k)'
<1>1. S \in SUBSET T /\ T \in SUBSET Server /\ l \in T \ S
  <2>1. \A j \in Server :
          matchIdx'[l][j] \in Nat /\ Len(entries'[j]) \in Nat
          /\ matchIdx'[l][j] <= Len(entries'[j])
    BY LenProperties DEF TypeOK, ServerTypeOK, MatchInv
  <2> QED BY <2>1 DEF Matched, Holders
<1> HIDE DEF S, T
<1>2. Cardinality(S) + 1 <= Cardinality(T) BY <1>1, OneMoreVoter
<1>3. Cardinality(S) \in Nat /\ Cardinality(T) \in Nat BY <1>1, MoreVoters
<1>4. n <= Cardinality(T) BY <1>2, <1>3 DEF S
<1>5. Majority(Cardinality(T)) BY <1>3, <1>4, MajorityUp
<1> QED BY <1>5 DEF T

\* The counters of entries that are counted for l alone.
LEMMA CountsOfOne ==
  ASSUME NEW l \in Server, NEW k, NEW n, n = 1
  PROVE  n <= 1 + Cardinality(Matched(l, k))
<1>1. Matched(l, k) \in SUBSET Server BY DEF Matched
<1>2. Cardinality(Matched(l, k)) \in Nat BY <1>1, MoreVoters
<1> QED BY <1>2

\* A reply for all the entries that have a LogState is a follower more for each
\* entry that is counted again.
LEMMA CountsTaken ==
  ASSUME TypeOK, TypeOK', NEW l \in Server, RoleInv(l), CountsMatched(l),
         NEW r \in appendReplies, TakeAppendSuccess(r), CountsWhatWasSent
  PROVE  CountsMatched(l)'
<1> DEFINE j == r.to
           n == replicateNum[l]
<1>1. /\ r.from = l /\ j \in Server \ {l} /\ Len(n) \in Nat
      /\ \A k \in 1..Len(n) : n[k] \in Nat
      /\ \A i \in Server : matchIdx[l][i] \in Nat /\ matchIdx'[l][i] \in Nat
  <2>1. n \in Seq(Nat) BY DEF TypeOK
  <2>2. Len(n) \in Nat /\ \A k \in 1..Len(n) : n[k] \in Nat
    <3> HIDE DEF n
    <3> QED BY <2>1, LenProperties, ElementOfSeq
  <2>3. r.from = l /\ j \in Server \ {l}
    BY DEF RoleInv, CallsAreOf, TypeOK, AppendReply
  <2>4. \A i \in Server : matchIdx[l][i] \in Nat /\ matchIdx'[l][i] \in Nat
    BY DEF TypeOK
  <2> QED BY <2>2, <2>3, <2>4
<1>2. /\ Len(n) <= matchIdx'[l][j]
      /\ \A i \in Server \ {j} : matchIdx'[l][i] = matchIdx[l][i]
  <2>1. matchIdx' = [matchIdx EXCEPT ![l][j] = MatchAfter(l, r)]
    BY <1>1 DEF TakeAppendSuccess
  <2>2. Len(n) <= MatchAfter(l, r) BY <1>1 DEF CountsWhatWasSent
  <2> HIDE DEF j, n
  <2> QED BY <1>1, <2>1, <2>2 DEF TypeOK
<1>3. replicateNum'[l] = [k \in 1..Len(n) |-> IF k > matchIdx[l][j] THEN n[k] + 1 ELSE n[k]]
  BY <1>1 DEF TakeAppendSuccess, TypeOK
<1> HIDE DEF j, n
<1>4. /\ Len(replicateNum'[l]) = Len(n)
      /\ \A k \in 1..Len(n) :
           replicateNum'[l][k] = IF k > matchIdx[l][j] THEN n[k] + 1 ELSE n[k]
  BY <1>1, <1>3
<1>5. ASSUME NEW k \in 1..Len(n)
      PROVE  replicateNum'[l][k] <= 1 + Cardinality(Matched(l, k)')
  <2>1. /\ Matched(l, k)' \in SUBSET Server /\ Matched(l, k) \in SUBSET Matched(l, k)'
        /\ j \in Matched(l, k)' /\ (k > matchIdx[l][j] => j \notin Matched(l, k))
    BY <1>1, <1>2 DEF Matched
  <2>2. /\ Cardinality(Matched(l, k)) \in Nat /\ Cardinality(Matched(l, k)') \in Nat
        /\ Cardinality(Matched(l, k)) <= Cardinality(Matched(l, k)')
    BY <2>1, MoreVoters
  <2>3. n[k] \in Nat /\ n[k] <= 1 + Cardinality(Matched(l, k))
    BY <1>1 DEF CountsMatched, n
  <2>4. CASE k > matchIdx[l][j]
    <3>1. Cardinality(Matched(l, k)) + 1 <= Cardinality(Matched(l, k)')
      BY <2>1, <2>4, OneMoreVoter
    <3> QED BY <1>4, <2>2, <2>3, <2>4, <3>1
  <2>5. CASE ~(k > matchIdx[l][j]) BY <1>4, <2>2, <2>3, <2>5
  <2> QED BY <2>4, <2>5
<1> QED BY <1>4, <1>5 DEF CountsMatched

\* Every step keeps the counters to what l knows of its followers.
LEMMA CountsStep ==
  ASSUME TypeOK, TypeOK', NEW l \in Server, RoleInv(l), CountsMatched(l),
         CountsWhatWasSent \/ UNCHANGED vars, [Next]_vars
  PROVE  CountsMatched(l)'
<1> USE DEF leaderVars
<1>1. ASSUME replicateNum'[l] = replicateNum[l], matchIdx'[l] = matchIdx[l]
      PROVE  CountsMatched(l)'
  BY <1>1 DEF CountsMatched, Matched
<1>2. ASSUME \A k \in 1..Len(replicateNum'[l]) : replicateNum'[l][k] = 1
      PROVE  CountsMatched(l)'
  <2> SUFFICES ASSUME NEW k \in 1..Len(replicateNum'[l])
               PROVE  replicateNum'[l][k] <= 1 + Cardinality(Matched(l, k)')
    BY DEF CountsMatched
  <2>1. Matched(l, k)' \in SUBSET Server BY DEF Matched
  <2>2. Cardinality(Matched(l, k)') \in Nat BY <2>1, MoreVoters
  <2> QED BY <1>2, <2>2
<1>3. ASSUME NEW i \in Server, NEW num,
             replicateNum' = [replicateNum EXCEPT ![i] = num],
             matchIdx' = [matchIdx EXCEPT ![i] = [j \in Server |-> 0]],
             \A k \in 1..Len(num) : num[k] = 1
      PROVE  CountsMatched(l)'
  <2>1. CASE i = l BY <1>2, <1>3, <2>1 DEF TypeOK
  <2>2. CASE i # l BY <1>1, <1>3, <2>2 DEF TypeOK
  <2> QED BY <2>1, <2>2
<1>4. ASSUME NEW i \in Server, Abort(i) PROVE CountsMatched(l)'
  <2>1. \A k \in 1..Len(<<>>) : <<>>[k] = 1 OBVIOUS
  <2> QED BY <1>3, <1>4, <2>1 DEF Abort
<1>5. ASSUME NEW i \in Server, Transform(i) PROVE CountsMatched(l)'
  <2>1. matchIdx' = [matchIdx EXCEPT ![i] = [j \in Server |-> 0]]
    BY <1>5 DEF Transform, BecomeDown, BecomeFollower, BecomeLeader, BecomeCandidate,
                LeaveQuietly, Leave
  <2>2. CASE BecomeLeader(i)
    <3> DEFINE num == [k \in 1..Len(entries[i]) |-> 1]
    <3>1. Len(entries[i]) \in Nat BY LenProperties DEF TypeOK, ServerTypeOK
    <3>2. \A k \in 1..Len(num) : num[k] = 1 BY <3>1
    <3>3. replicateNum' = [replicateNum EXCEPT ![i] = num] BY <2>2 DEF BecomeLeader
    <3> HIDE DEF num
    <3> QED BY <1>3, <2>1, <3>2, <3>3
  <2>3. CASE ~BecomeLeader(i)
    <3>1. replicateNum' = [replicateNum EXCEPT ![i] = <<>>]
      BY <1>5, <2>3 DEF Transform, BecomeDown, BecomeFollower, BecomeCandidate
    <3>2. \A k \in 1..Len(<<>>) : <<>>[k] = 1 OBVIOUS
    <3> QED BY <1>3, <2>1, <3>1, <3>2
  <2> QED BY <2>2, <2>3
<1>6. ASSUME NEW i \in Server, AddLogState(i) PROVE CountsMatched(l)'
  <2>1. i = l BY <1>6 DEF AddLogState, RoleInv, Follows
  <2>2. replicateNum'[l] = Append(replicateNum[l], 1) /\ matchIdx' = matchIdx
    BY <1>6, <2>1 DEF AddLogState, TypeOK
  <2> DEFINE n == replicateNum[l]
  <2>3. n \in Seq(Nat) BY DEF TypeOK
  <2>4. \A k \in 1..Len(n) : n[k] <= 1 + Cardinality(Matched(l, k))
    BY DEF CountsMatched
  <2> SUFFICES ASSUME NEW k \in 1..Len(Append(n, 1))
               PROVE  Append(n, 1)[k] <= 1 + Cardinality(Matched(l, k))
    BY <2>2 DEF CountsMatched, Matched
  <2> HIDE DEF n
  <2>5. /\ Len(n) \in Nat /\ Len(Append(n, 1)) = Len(n) + 1
        /\ \A q \in 1..Len(n) : Append(n, 1)[q] = n[q]
        /\ Append(n, 1)[Len(n) + 1] = 1
    BY <2>3, AppendProperties, LenProperties
  <2>6. CASE k \in 1..Len(n) BY <2>4, <2>5, <2>6
  <2>7. CASE k = Len(n) + 1 BY <2>5, <2>7, CountsOfOne
  <2> QED BY <2>5, <2>6, <2>7
<1>7. ASSUME NEW r \in appendReplies, TakeAppendReply(r) PROVE CountsMatched(l)'
  <2>1. r.from \in Server BY DEF TypeOK, AppendReply
  <2>2. CASE TakeAppendSuccess(r)
    <3>1. CASE CountsWhatWasSent BY <2>2, <3>1, CountsTaken
    <3>2. CASE UNCHANGED vars BY <1>1, <3>2 DEF vars
    <3> QED BY <3>1, <3>2
  <2>3. CASE TakeAppendSuccessCrashes(r)
    BY <1>4, <2>1, <2>3 DEF TakeAppendSuccessCrashes
  <2>4. CASE TakeAppendGreaterTerm(r) BY <1>1, <2>4 DEF TakeAppendGreaterTerm
  <2>5. CASE TakeAppendRejection(r) BY <1>1, <2>5 DEF TakeAppendRejection
  <2> QED BY <1>7, <2>2, <2>3, <2>4, <2>5 DEF TakeAppendReply
<1>8. ASSUME NEW i \in Server, NEW j \in Server,
             SendAppendEntries(i, j) \/ SendAppendEntriesThrows(i, j)
      PROVE  CountsMatched(l)'
  BY <1>1, <1>4, <1>8 DEF SendAppendEntries, SendAppendEntriesThrows
<1>9. ASSUME \/ \E i \in Server : Expires(i) \/ NotifyTimeout(i) \/ Stop(i) \/ Stopped(i)
             \/ \E m \in voteReqs : ServeRequestVote(m)
             \/ \E r \in voteReplies : TakeVoteReply(r)
             \/ \E m \in appendReqs : ServeAppendEntries(m)
             \/ \E i \in Server, req \in Request : AddLog(i, req)
             \/ UNCHANGED vars
      PROVE  CountsMatched(l)'
  BY <1>1, <1>9 DEF Expires, NotifyTimeout, Stop, Stopped, ServeRequestVote,
                    TakeVoteReply, ServeAppendEntries, AddLog, vars
<1> QED BY <1>5, <1>6, <1>7, <1>8, <1>9 DEF Next

\* Where nothing is committed or applied, and no message tells of more.
LEMMA FirstKept ==
  ASSUME NEW l \in Server, CommitsFirst(l), UNCHANGED <<commitIdx, lastApplied>>,
         \A m \in appendReqs' :
           \/ m.commitIdx <= commitIdx[l]
           \/ \E n \in appendReqs : m.commitIdx = n.commitIdx
  PROVE  CommitsFirst(l)'
<1>1. \A m \in appendReqs' : m.commitIdx <= commitIdx[l] BY DEF CommitsFirst
<1> QED BY <1>1 DEF CommitsFirst

\* One server commits and applies: l what is new, any other what l has committed.
LEMMA FirstAt ==
  ASSUME TypeOK, TypeOK', NEW l \in Server, CommitsFirst(l), NEW i \in Server,
         NEW log, NEW c \in Nat, ApplyReadyEntries(i, log, c),
         commitIdx' = [commitIdx EXCEPT ![i] = c], appendReqs' \subseteq appendReqs,
         IF i = l THEN commitIdx[l] <= c ELSE c <= commitIdx[l]
  PROVE  CommitsFirst(l)'
<1>1. /\ \A j \in Server : commitIdx[j] \in Nat /\ lastApplied[j] \in Nat
      /\ commitIdx'[i] = c
      /\ \A j \in Server \ {i} :
           commitIdx'[j] = commitIdx[j] /\ lastApplied'[j] = lastApplied[j]
      /\ lastApplied'[i] = lastApplied[i] + Ready(i, c)
  BY DEF TypeOK, ServerTypeOK, ApplyReadyEntries
<1>2. lastApplied'[i] \in {lastApplied[i], c} BY <1>1 DEF Ready
<1>3. commitIdx[l] <= commitIdx'[l] /\ commitIdx'[l] \in Nat BY <1>1
<1>4. ASSUME NEW m \in appendReqs' PROVE m.commitIdx <= commitIdx'[l]
  <2>1. m.commitIdx \in Nat /\ m.commitIdx <= commitIdx[l]
    BY DEF CommitsFirst, TypeOK, AppendEntriesMessage
  <2> QED BY <1>1, <1>3, <2>1
<1>5. ASSUME NEW j \in Server
      PROVE  lastApplied'[j] <= commitIdx'[l] /\ commitIdx'[j] <= commitIdx'[l]
  <2>1. lastApplied[j] <= commitIdx[l] /\ commitIdx[j] <= commitIdx[l]
    BY DEF CommitsFirst
  <2>2. CASE j # i BY <1>1, <1>3, <2>1, <2>2
  <2>3. CASE j = i BY <1>1, <1>2, <1>3, <2>1, <2>3
  <2> QED BY <2>2, <2>3
<1> QED BY <1>4, <1>5 DEF CommitsFirst

\* A follower commits no more than the message says.
LEMMA FirstServed ==
  ASSUME TypeOK, TypeOK', NEW l \in Server, RoleInv(l), CommitsFirst(l),
         NEW m \in appendReqs, ServeAppendEntries(m)
  PROVE  CommitsFirst(l)' /\ commitIdx'[l] = commitIdx[l]
<1> DEFINE i == m.to
           log == IF Accepts(i, m) THEN Merge(entries[i], m) ELSE entries[i]
           commit == IF Accepts(i, m) THEN CommitAfter(i, m, Len(log))
                                      ELSE commitIdx[i]
<1>1. /\ i \in Server /\ i # l /\ m.commitIdx \in Nat /\ m.commitIdx <= commitIdx[l]
      /\ commitIdx[i] \in Nat /\ commitIdx[l] \in Nat /\ commitIdx[i] <= commitIdx[l]
      /\ appendReqs' = appendReqs \ {m}
  BY DEF RoleInv, CallsAreOf, TypeOK, ServerTypeOK, AppendEntriesMessage, CommitsFirst,
         ServeAppendEntries
<1>2. CASE identity[i] = "Down" \/ IgnoresAppend(i, m)
  <2>1. UNCHANGED <<commitIdx, lastApplied>>
    BY <1>2 DEF ServeAppendEntries, RPCAppendEntries, serverVars, logVars, applyVars
  <2> QED BY <1>1, <2>1, FirstKept
<1>3. CASE ~(identity[i] = "Down" \/ IgnoresAppend(i, m))
  <2>1. /\ entries' = [entries EXCEPT ![i] = log]
        /\ commitIdx' = [commitIdx EXCEPT ![i] = commit]
        /\ ApplyReadyEntries(i, log, commit)
    BY <1>3 DEF ServeAppendEntries, RPCAppendEntries
  <2>2. /\ commitIdx'[i] = commit /\ commitIdx'[l] = commitIdx[l]
        /\ entries'[i] = log
    BY <1>1, <2>1 DEF TypeOK, ServerTypeOK
  <2>3. commit \in Nat /\ Len(log) \in Nat
    <3>1. /\ commitIdx' \in [Server -> Nat] /\ entries' \in [Server -> Seq(Entry)]
          /\ i \in Server
      BY <1>1 DEF TypeOK, ServerTypeOK
    <3> HIDE DEF commit, log, i
    <3> QED BY <2>2, <3>1, LenProperties
  <2>4. commit <= commitIdx[l]
    <3> DEFINE a == m.commitIdx
               b == Len(log)
    <3>1. commit \in {commitIdx[i], Min({a, b})} BY DEF CommitAfter
    <3>2. a \in Int /\ b \in Int BY <1>1, <2>3
    <3> HIDE DEF a, b
    <3>3. Min({a, b}) \in {a, b} /\ Min({a, b}) <= a BY <3>2, MinOfTwo, Zenon
    <3>4. Min({a, b}) \in Int BY <3>2, <3>3
    <3>5. Min({a, b}) <= commitIdx[l] BY <1>1, <3>2, <3>3, <3>4 DEF a
    <3> HIDE DEF commit
    <3> QED BY <1>1, <3>1, <3>5
  <2> HIDE DEF i, log, commit
  <2> QED BY <1>1, <2>1, <2>2, <2>3, <2>4, FirstAt
<1> QED BY <1>2, <1>3

\* A vote commits nothing, and applies what is committed.
LEMMA FirstVoted ==
  ASSUME TypeOK, TypeOK', NEW l \in Server, CommitsFirst(l),
         NEW m \in voteReqs, ServeRequestVote(m)
  PROVE  CommitsFirst(l)' /\ commitIdx' = commitIdx
<1> DEFINE i == m.to
<1>1. /\ i \in Server /\ commitIdx[i] \in Nat /\ commitIdx[i] <= commitIdx[l]
      /\ appendReqs' = appendReqs
  BY DEF TypeOK, ServerTypeOK, RequestVoteMessage, CommitsFirst, ServeRequestVote,
         appendCalls
<1>2. CASE identity[i] = "Down"
  <2>1. UNCHANGED <<commitIdx, lastApplied>>
    BY <1>2 DEF ServeRequestVote, RPCRequestVote, serverVars, logVars, applyVars
  <2> QED BY <1>1, <2>1, FirstKept
<1>3. CASE identity[i] # "Down"
  <2>1. commitIdx' = commitIdx /\ ApplyReadyEntries(i, entries[i], commitIdx[i])
    BY <1>3 DEF ServeRequestVote, RPCRequestVote, logVars
  <2>2. commitIdx' = [commitIdx EXCEPT ![i] = commitIdx[i]]
    BY <2>1 DEF TypeOK, ServerTypeOK
  <2> HIDE DEF i
  <2> QED BY <1>1, <2>1, <2>2, FirstAt
<1> QED BY <1>2, <1>3

\* l commits up to an entry that it has and that its count finds replicated.
LEMMA CommitTaken ==
  ASSUME TypeOK, TypeOK', NEW l \in Server, RoleInv(l), CountInv(l), ReplicaInv(l),
         MatchInv(l)', CountsMatched(l)', NEW r \in appendReplies, TakeAppendSuccess(r)
  PROVE  CommittedIsHeld(l)' /\ CommitsFirst(l)'
<1>1. r.from = l BY DEF RoleInv, CallsAreOf
<1>2. /\ replicateNum[l] \in Seq(Nat) /\ Len(replicateNum[l]) \in Nat
      /\ commitIdx[l] \in Nat /\ Len(entries[l]) \in Nat
      /\ Len(replicateNum[l]) <= Len(entries[l])
  <2>1. /\ replicateNum[l] \in Seq(Nat) /\ Len(replicateNum[l]) \in Nat
        /\ commitIdx[l] \in Nat /\ Len(entries[l]) \in Nat
    BY LenProperties DEF TypeOK, ServerTypeOK
  <2>2. Owed(l) \in {0, 1} BY DEF Owed
  <2>3. Len(replicateNum[l]) + Owed(l) <= Len(entries[l]) BY DEF CountInv
  <2> QED BY <2>1, <2>2, <2>3
<1>3. PICK c \in {commitIdx[l]} \cup Counted(l, r) :
        /\ \A k \in {commitIdx[l]} \cup Counted(l, r) : k <= c
        /\ commitIdx' = [commitIdx EXCEPT ![l] = c]
        /\ ApplyReadyEntries(l, entries[l], c)
  BY <1>1 DEF TakeAppendSuccess
<1>4. entries' = entries /\ appendReqs' = appendReqs BY DEF TakeAppendSuccess
<1>5. c \in Nat /\ commitIdx[l] <= c /\ commitIdx'[l] = c
  <2>1. c \in Nat BY <1>2, <1>3 DEF Counted
  <2> QED BY <1>3, <2>1 DEF TypeOK, ServerTypeOK
<1>6. CommitsFirst(l)' BY <1>3, <1>4, <1>5, FirstAt DEF ReplicaInv
<1>7. c > 0 => Majority(Cardinality(Holders(c)))
  <2>1. CASE c = commitIdx[l]
    <3>1. c > 0 => c \in 1..commitIdx[l] BY <1>2, <2>1
    <3> QED BY <3>1 DEF ReplicaInv, CommittedIsHeld
  <2>2. CASE c \in Counted(l, r)
    <3> DEFINE n == replicateNum[l]
               num == replicateNum'[l][c]
    <3>1. c \in 1..Len(n) /\ c > matchIdx[l][r.to] /\ Majority(n[c] + 1)
      BY <2>2 DEF Counted
    <3>2. replicateNum'[l] =
            [k \in 1..Len(n) |-> IF k > matchIdx[l][r.to] THEN n[k] + 1 ELSE n[k]]
      BY <1>1 DEF TakeAppendSuccess, TypeOK
    <3>3. n[c] \in Nat BY <1>2, <3>1, ElementOfSeq
    <3>4. Len(replicateNum'[l]) = Len(n) /\ num = n[c] + 1
      <4> HIDE DEF n
      <4> QED BY <1>2, <3>1, <3>2 DEF n
    <3>5. num <= 1 + Cardinality(Matched(l, c)')
      BY <3>1, <3>4 DEF CountsMatched
    <3>6. c <= Len(entries'[l]) BY <1>2, <1>4, <3>1
    <3>7. num \in Nat /\ Majority(num) BY <3>1, <3>3, <3>4
    <3> HIDE DEF num, n
    <3>8. Majority(Cardinality(Holders(c)')) BY <1>5, <3>5, <3>6, <3>7, MatchedHold
    <3>9. Holders(c)' = Holders(c) BY <1>4 DEF Holders
    <3> QED BY <3>8, <3>9
  <2> QED BY <1>3, <2>1, <2>2
<1>8. ASSUME NEW k \in 1..c PROVE Majority(Cardinality(Holders(k)'))
  <2>1. \A i \in Server : Len(entries[i]) <= Len(entries'[i])
    BY <1>4, LenProperties DEF TypeOK, ServerTypeOK
  <2> QED BY <1>5, <1>7, <2>1, HoldersMore
<1> QED BY <1>5, <1>6, <1>8 DEF CommittedIsHeld

\* Every step commits, or has l tell of, only what a majority has.
LEMMA ReplicaStep ==
  ASSUME NEW l \in Server, OneStands(l), ContenderInv(l), ContenderInv(l)',
         MatchInv(l), ReplicaInv(l), CountsWhatWasSent \/ UNCHANGED vars, [Next]_vars
  PROVE  ReplicaInv(l)'
<1> USE DEF serverVars, logVars, applyVars, appendCalls
<1>1. TypeOK /\ TypeOK' /\ RoleInv(l) /\ LogInv(l) /\ CountInv(l)
  BY DEF ContenderInv
<1>2. MatchInv(l)' BY <1>1, MatchStep
<1>3. CountsMatched(l)' BY <1>1, CountsStep DEF ReplicaInv
<1>4. \A i \in Server : Len(entries[i]) <= Len(entries'[i])
  <2>1. \A i \in Server : Stands(entries[i], 0, entries'[i]) BY <1>1, LogStep
  <2>2. \A i \in Server : Len(entries[i]) \in Nat
    BY <1>1, LenProperties DEF TypeOK, ServerTypeOK
  <2> QED BY <2>1, <2>2 DEF Stands
<1>5. ASSUME commitIdx'[l] = commitIdx[l], CommitsFirst(l)' PROVE ReplicaInv(l)'
  <2>1. ASSUME NEW k \in 1..commitIdx[l] PROVE Majority(Cardinality(Holders(k)'))
    <3>1. Majority(Cardinality(Holders(k))) BY DEF ReplicaInv, CommittedIsHeld
    <3>2. k \in Nat /\ k <= k OBVIOUS
    <3> QED BY <1>1, <1>4, <3>1, <3>2, HoldersMore
  <2> QED BY <1>3, <1>5, <2>1 DEF ReplicaInv, CommittedIsHeld
<1>6. ASSUME UNCHANGED <<commitIdx, lastApplied>>,
             \A m \in appendReqs' :
               \/ m.commitIdx <= commitIdx[l]
               \/ \E n \in appendReqs : m.commitIdx = n.commitIdx
      PROVE  ReplicaInv(l)'
  <2>1. CommitsFirst(l)' BY <1>6, FirstKept DEF ReplicaInv
  <2> QED BY <1>5, <1>6, <2>1
<1>7. ASSUME NEW gone \in SUBSET appendReqs, NEW rest \in Abandon(appendReqs, gone),
             NEW m \in rest
      PROVE  \E n \in appendReqs : m.commitIdx = n.commitIdx
  <2>1. appendReqs \in SUBSET AppendEntriesMessage BY <1>1 DEF TypeOK
  <2> QED BY <2>1, LeftAppends
<1>8. ASSUME NEW i \in Server, Abort(i) \/ Transform(i) PROVE ReplicaInv(l)'
  <2>1. /\ UNCHANGED <<commitIdx, lastApplied>>
        /\ appendReqs' \in Abandon(appendReqs, LiveCalls(appendReqs, i))
    BY <1>8 DEF Abort, Transform, BecomeDown, BecomeFollower, BecomeLeader,
                BecomeCandidate, LeaveQuietly, Leave
  <2>2. LiveCalls(appendReqs, i) \in SUBSET appendReqs BY DEF LiveCalls
  <2>3. \A m \in appendReqs' : \E n \in appendReqs : m.commitIdx = n.commitIdx
    BY <1>7, <2>1, <2>2
  <2> QED BY <1>6, <2>1, <2>3
<1>9. ASSUME NEW i \in Server, NEW j \in Server, SendAppendEntries(i, j)
      PROVE  ReplicaInv(l)'
  <2> DEFINE gone == {m \in LiveCalls(appendReqs, i) : m.to = j}
             a == AppendRequest(i, j)
  <2>1. i = l BY <1>1, <1>9 DEF SendAppendEntries, RoleInv, Follows
  <2>2. PICK rest \in Abandon(appendReqs, gone) : appendReqs' = rest \cup {a}
    BY <1>9 DEF SendAppendEntries
  <2>3. gone \in SUBSET appendReqs BY DEF LiveCalls
  <2>4. a.commitIdx = commitIdx[l] BY <2>1 DEF AppendRequest
  <2>5. UNCHANGED <<commitIdx, lastApplied>> BY <1>9 DEF SendAppendEntries
  <2> HIDE DEF gone, a
  <2>6. \A m \in rest : \E n \in appendReqs : m.commitIdx = n.commitIdx
    BY <1>7, <2>3
  <2>7. commitIdx[l] \in Nat BY <1>1 DEF TypeOK, ServerTypeOK
  <2>8. \A m \in appendReqs' :
          \/ m.commitIdx <= commitIdx[l]
          \/ \E n \in appendReqs : m.commitIdx = n.commitIdx
    BY <2>2, <2>4, <2>6, <2>7
  <2> QED BY <1>6, <2>5, <2>8
<1>10. ASSUME NEW m \in appendReqs, ServeAppendEntries(m) PROVE ReplicaInv(l)'
  BY <1>1, <1>5, <1>10, FirstServed DEF ReplicaInv
<1>11. ASSUME NEW m \in voteReqs, ServeRequestVote(m) PROVE ReplicaInv(l)'
  BY <1>1, <1>5, <1>11, FirstVoted DEF ReplicaInv
<1>12. ASSUME NEW r \in appendReplies, TakeAppendReply(r) PROVE ReplicaInv(l)'
  <2>1. r.from \in Server BY <1>1 DEF TypeOK, AppendReply
  <2>2. CASE TakeAppendSuccess(r) BY <1>1, <1>2, <1>3, <2>2, CommitTaken DEF ReplicaInv
  <2>3. CASE TakeAppendSuccessCrashes(r)
    BY <1>8, <2>1, <2>3 DEF TakeAppendSuccessCrashes
  <2>4. CASE TakeAppendGreaterTerm(r) BY <1>6, <2>4 DEF TakeAppendGreaterTerm
  <2>5. CASE TakeAppendRejection(r) BY <1>6, <2>5 DEF TakeAppendRejection
  <2> QED BY <1>12, <2>2, <2>3, <2>4, <2>5 DEF TakeAppendReply
<1>13. ASSUME \/ \E i \in Server : \/ Expires(i) \/ NotifyTimeout(i)
                                 \/ AddLogState(i) \/ Stop(i) \/ Stopped(i)
              \/ \E r \in voteReplies : TakeVoteReply(r)
              \/ \E i \in Server, req \in Request : AddLog(i, req)
              \/ UNCHANGED vars
       PROVE  ReplicaInv(l)'
  BY <1>6, <1>13 DEF Expires, NotifyTimeout, AddLogState, Stop, Stopped, TakeVoteReply,
                     AddLog, vars
<1> QED BY <1>8, <1>9, <1>10, <1>11, <1>12, <1>13 DEF Next, SendAppendEntriesThrows

\* What a service was handed is in the logs of a majority, while one server only
\* ever stands, unless its tryAppendEntries has counted a reply for entries that
\* were logged after the message was made: nothing else commits too early, the late
\* LogState of addLog, lost and late calls and step downs included.
THEOREM OvercountingCommitsEarly ==
  ASSUME NEW l \in Server, OneStands(l)
  PROVE  Spec /\ [][CountsWhatWasSent]_vars => []AppliedIsReplicated
<1> DEFINE Inv == ContenderInv(l) /\ MatchInv(l) /\ ReplicaInv(l)
<1>1. Init => Inv
  <2> SUFFICES ASSUME Init PROVE Inv OBVIOUS
  <2>1. /\ commitIdx[l] = 0 /\ replicateNum[l] = <<>> /\ appendReqs = {}
        /\ \A i \in Server : commitIdx[i] = 0 /\ lastApplied[i] = 0
    BY DEF Init, InitServer
  <2>2. ReplicaInv(l)
    BY <2>1 DEF ReplicaInv, CountsMatched, CommittedIsHeld, CommitsFirst
  <2>3. MatchInv(l) BY DEF Init, InitServer, MatchInv, OneAwaited
  <2> QED BY <2>2, <2>3, ContenderInductive
<1>2. Inv /\ [Next]_vars /\ [CountsWhatWasSent]_vars => Inv'
  <2> SUFFICES ASSUME Inv, [Next]_vars, [CountsWhatWasSent]_vars PROVE Inv' OBVIOUS
  <2>1. ContenderInv(l)' BY ContenderInductive
  <2>2. MatchInv(l)' BY <2>1, MatchStep DEF ContenderInv
  <2>3. ReplicaInv(l)' BY <2>1, ReplicaStep
  <2> QED BY <2>1, <2>2, <2>3
<1>3. Inv => AppliedIsReplicated
  <2> SUFFICES ASSUME Inv, NEW i \in Server, NEW k \in 1..Len(applied[i])
               PROVE  Majority(Cardinality({j \in Server :
                                              RequestAt(entries[j], k) = applied[i][k]}))
    BY DEF AppliedIsReplicated
  <2> DEFINE S == {j \in Server : RequestAt(entries[j], k) = applied[i][k]}
  <2>1. \A j \in Server :
          /\ entries[j] \in Seq(Entry) /\ Len(entries[j]) \in Nat
          /\ Len(applied[j]) \in Nat /\ lastApplied[j] \in Nat /\ commitIdx[j] \in Nat
    BY LenProperties DEF ContenderInv, TypeOK, ServerTypeOK
  <2>2. k \in 1..commitIdx[l]
    <3>1. Len(applied[i]) = lastApplied[i] BY DEF ContenderInv, CommittedIsApplied
    <3>2. lastApplied[i] <= commitIdx[l] BY DEF ReplicaInv, CommitsFirst
    <3> QED BY <2>1, <3>1, <3>2
  <2>3. Majority(Cardinality(Holders(k))) BY <2>2 DEF ReplicaInv, CommittedIsHeld
  <2>4. ASSUME NEW j \in Server, Len(entries[j]) >= k
        PROVE  RequestAt(entries[j], k) = applied[i][k]
    <3>1. Stands(entries[j], 0, entries[l]) /\ Stands(entries[i], 0, entries[l])
      BY DEF ContenderInv, LogInv
    <3>2. Handed(applied[i], entries[i]) BY DEF ContenderInv, ApplyInv
    <3>3. /\ k \in 1..Len(entries[j]) /\ k \in 1..Len(entries[i]) /\ 0 + k = k
      BY <2>1, <2>4, <3>2 DEF Handed
    <3>4. entries[j][k] = entries[l][k] /\ entries[i][k] = entries[l][k]
      BY <3>1, <3>3 DEF Stands
    <3>5. applied[i][k] = entries[i][k].req BY <3>2 DEF Handed
    <3> QED BY <3>3, <3>4, <3>5 DEF RequestAt
  <2>5. S \in SUBSET Server /\ Holders(k) \in SUBSET S BY <2>4 DEF Holders
  <2> HIDE DEF S
  <2>6. Majority(Cardinality(S)) BY <2>3, <2>5, MoreVoters
  <2> QED BY <2>6 DEF S
<1> QED BY <1>1, <1>2, <1>3, PTL DEF Spec

-----------------------------------------------------------------------------
(***************************************************************************)
(* What becomes of one server.                                              *)
(***************************************************************************)

\* A timeout of i is still to ask for a candidacy.
Awaits(i) == timer[i] \/ ~NoTimeoutBegun(i)

\* i stays what it is, keeps its timeout, and has events left if it had any.
Unmoved(i) ==
  /\ identity'[i] = identity[i] /\ phase'[i] = phase[i]
  /\ Awaits(i) => Awaits(i)'
  /\ queue'[i] = <<>> => queue[i] = <<>>

\* notify takes no event away.
LEMMA NotifyKeepsEvents ==
  ASSUME TypeOK, NEW i \in Server, NEW j \in Server, NEW to \in Identity,
         NEW term \in Nat, Notify(j, to, term)
  PROVE  queue'[i] = <<>> => queue[i] = <<>>
<1>1. queue[i] \in Seq(Event) BY DEF TypeOK, ServerTypeOK
<1>2. [to |-> to, term |-> term] \in Event BY DEF Event
<1>3. queue'[i] \in {queue[i], Append(queue[i], [to |-> to, term |-> term])}
  BY DEF Notify, Notified, TypeOK, ServerTypeOK
<1>4. Append(queue[i], [to |-> to, term |-> term]) # <<>>
  BY <1>1, <1>2, AppendProperties
<1> QED BY <1>3, <1>4

\* What moves i are the ends of its timeouts, its transformations, its end and Stop.
LEMMA WhatMoves ==
  ASSUME TypeOK, NEW i \in Server, [Next]_vars
  PROVE  \/ Unmoved(i) \/ NotifyTimeout(i) \/ Transform(i) \/ Abort(i)
         \/ Stop(i) \/ Stopped(i)
<1> SUFFICES ASSUME ~NotifyTimeout(i), ~Transform(i), ~Abort(i), ~Stop(i), ~Stopped(i)
             PROVE  Unmoved(i)
  OBVIOUS
<1> USE DEF serverVars, triggerVars, candidateVars
<1>1. ASSUME UNCHANGED <<identity, phase, timer, expiring, queue>> PROVE Unmoved(i)
  BY <1>1 DEF Unmoved, Awaits, NoTimeoutBegun
<1>2. ASSUME NEW j \in Server \ {i}, NotifyTimeout(j) \/ Transform(j) \/ Abort(j)
      PROVE  Unmoved(i)
  <2>1. /\ identity' = identity \/ \E x : identity' = [identity EXCEPT ![j] = x]
        /\ timer' = timer \/ \E x : timer' = [timer EXCEPT ![j] = x]
        /\ expiring' = expiring \/ \E x : expiring' = [expiring EXCEPT ![j] = x]
    BY <1>2 DEF NotifyTimeout, Transform, BecomeDown, BecomeFollower, BecomeLeader,
                BecomeCandidate, LeaveQuietly, Leave, Abort
  <2>2. \E x : queue' = [queue EXCEPT ![j] = x]
    BY <1>2 DEF NotifyTimeout, Notify, Transform, BecomeDown, BecomeFollower, BecomeLeader,
                BecomeCandidate, LeaveQuietly, Leave, Abort
  <2>3. phase' = phase \/ \E x : phase' = [phase EXCEPT ![j] = x]
    BY <1>2 DEF NotifyTimeout, Transform, BecomeDown, BecomeFollower, BecomeLeader,
                BecomeCandidate, LeaveQuietly, Leave, Abort
  <2>4. identity'[i] = identity[i] /\ timer'[i] = timer[i] /\ queue'[i] = queue[i]
    BY <2>1, <2>2 DEF TypeOK, ServerTypeOK
  <2>5. phase'[i] = phase[i] /\ expiring'[i] = expiring[i] BY <2>1, <2>3 DEF TypeOK
  <2> QED BY <2>4, <2>5 DEF Unmoved, Awaits, NoTimeoutBegun
<1>3. ASSUME NEW j \in Server \ {i}, Stop(j) \/ Stopped(j) PROVE Unmoved(i)
  BY <1>3 DEF Stop, Stopped, Unmoved, Awaits, NoTimeoutBegun, TypeOK, ServerTypeOK
<1>4. ASSUME NEW j \in Server, NEW to \in Identity, NEW term \in Nat,
             (UNCHANGED triggerVars) \/ Notify(j, to, term),
             identity' = identity, phase' = phase, timer[i] => timer'[i],
             expiring' = expiring
      PROVE  Unmoved(i)
  <2>1. queue'[i] = <<>> => queue[i] = <<>> BY <1>4, NotifyKeepsEvents
  <2> QED BY <1>4, <2>1 DEF Unmoved, Awaits, NoTimeoutBegun
<1>5. "Follower" \in Identity /\ "Leader" \in Identity BY DEF Identity
<1>6. ASSUME NEW m \in voteReqs, ServeRequestVote(m) PROVE Unmoved(i)
  <2>1. m.to \in Server /\ m.term \in Nat BY DEF TypeOK, RequestVoteMessage
  <2>2. timer[i] => timer'[i]
    BY <1>6, <2>1 DEF ServeRequestVote, RPCRequestVote, TypeOK, ServerTypeOK
  <2>3. /\ (UNCHANGED triggerVars) \/ Notify(m.to, "Follower", m.term)
        /\ identity' = identity /\ phase' = phase /\ expiring' = expiring
    BY <1>6 DEF ServeRequestVote, RPCRequestVote
  <2> QED BY <1>4, <1>5, <2>1, <2>2, <2>3
<1>7. ASSUME NEW m \in appendReqs, ServeAppendEntries(m) PROVE Unmoved(i)
  <2>1. m.to \in Server /\ m.term \in Nat BY DEF TypeOK, AppendEntriesMessage
  <2>2. timer[i] => timer'[i]
    BY <1>7, <2>1 DEF ServeAppendEntries, RPCAppendEntries, TypeOK, ServerTypeOK
  <2>3. /\ (UNCHANGED triggerVars) \/ Notify(m.to, "Follower", m.term)
        /\ identity' = identity /\ phase' = phase /\ expiring' = expiring
    BY <1>7 DEF ServeAppendEntries, RPCAppendEntries
  <2> QED BY <1>4, <1>5, <2>1, <2>2, <2>3
<1>8. ASSUME NEW r \in voteReplies, TakeVoteReply(r) PROVE Unmoved(i)
  <2>1. r.from \in Server /\ r.sent \in Nat BY DEF TypeOK, VoteReply
  <2>2. /\ (UNCHANGED triggerVars) \/ Notify(r.from, "Leader", r.sent)
        /\ identity' = identity /\ phase' = phase /\ timer' = timer
        /\ expiring' = expiring
    BY <1>8 DEF TakeVoteReply
  <2> QED BY <1>4, <1>5, <2>1, <2>2
<1>9. ASSUME NEW r \in appendReplies, TakeAppendReply(r) PROVE Unmoved(i)
  <2>1. r.from \in Server /\ r.term \in Nat BY DEF TypeOK, AppendReply
  <2>2. CASE TakeAppendSuccess(r) BY <1>1, <2>2 DEF TakeAppendSuccess
  <2>3. CASE TakeAppendSuccessCrashes(r)
    BY <1>2, <2>1, <2>3 DEF TakeAppendSuccessCrashes
  <2>4. CASE TakeAppendGreaterTerm(r)
    BY <1>4, <1>5, <2>1, <2>4 DEF TakeAppendGreaterTerm
  <2>5. CASE TakeAppendRejection(r) BY <1>1, <2>5 DEF TakeAppendRejection
  <2> QED BY <1>9, <2>2, <2>3, <2>4, <2>5 DEF TakeAppendReply
<1>10. ASSUME NEW j \in Server, NEW k \in Server,
              SendAppendEntries(j, k) \/ SendAppendEntriesThrows(j, k)
       PROVE  Unmoved(i)
  BY <1>1, <1>2, <1>10 DEF SendAppendEntries, SendAppendEntriesThrows
<1>11. ASSUME \/ \E j \in Server : AddLogState(j)
              \/ \E j \in Server, req \in Request : AddLog(j, req)
              \/ UNCHANGED vars
       PROVE  Unmoved(i)
  BY <1>1, <1>11 DEF AddLogState, AddLog, vars
<1>12. ASSUME NEW j \in Server, Expires(j) PROVE Unmoved(i)
  <2>1. identity' = identity /\ phase' = phase /\ queue' = queue BY <1>12 DEF Expires
  <2>2. CASE j = i
    <3>1. expiring'[i] = {currentTerm[i]} BY <1>12, <2>2 DEF Expires, TypeOK
    <3> QED BY <2>1, <3>1 DEF Unmoved, Awaits, NoTimeoutBegun
  <2>3. CASE j # i
    <3>1. timer'[i] = timer[i] /\ expiring'[i] = expiring[i]
      BY <1>12, <2>3 DEF Expires, TypeOK, ServerTypeOK
    <3> QED BY <2>1, <3>1 DEF Unmoved, Awaits, NoTimeoutBegun
  <2> QED BY <2>2, <2>3
<1> QED
  BY <1>2, <1>3, <1>6, <1>7, <1>8, <1>9, <1>10, <1>11, <1>12 DEF Next

-----------------------------------------------------------------------------
(***************************************************************************)
(* Nobody waits without a timer: whoever takes the timer away puts an event *)
(* into the queue, if only notify lets it through.                          *)
(***************************************************************************)

\* A server that has nobody to follow and nothing to become has its timer, or a
\* timeout that has yet to ask for a candidacy, unless notify has refused one, for a
\* transformation of that term was made or asked for before: the one-shot timer is
\* lost with it, and in no other way, though the term be read a while before.
THEOREM RefusalWedges == Spec /\ [][TimeoutsPass]_vars => []TimeoutAhead
<1>1. Init => TimeoutAhead BY DEF Init, InitServer, TimeoutAhead
<1>2. TypeOK /\ TimeoutAhead /\ [Next]_vars /\ [TimeoutsPass]_vars => TimeoutAhead'
  <2> SUFFICES ASSUME TypeOK, TimeoutAhead, [Next]_vars, [TimeoutsPass]_vars,
                      NEW i \in Server, identity'[i] \in {"Follower", "Candidate"},
                      phase'[i] = "up", queue'[i] = <<>>
               PROVE  Awaits(i)'
    BY DEF TimeoutAhead, Awaits, NoTimeoutBegun
  <2> USE DEF NoTimeoutBegun
  <2>1. CASE Unmoved(i) BY <2>1 DEF Unmoved, Awaits, TimeoutAhead
  <2>2. CASE UNCHANGED vars
    BY <2>2 DEF vars, serverVars, triggerVars, candidateVars, Awaits, TimeoutAhead
  <2>3. CASE NotifyTimeout(i) /\ TimeoutsPass
    <3>1. PICK term \in expiring[i] : Fresh(i, term) /\ Notify(i, "Candidate", term)
      BY <2>3 DEF NotifyTimeout, TimeoutsPass
    <3> DEFINE e == [to |-> "Candidate", term |-> term]
    <3>2. queue[i] \in Seq(Event) /\ e \in Event
      BY DEF TypeOK, ServerTypeOK, Event, Identity
    <3>3. queue'[i] = Append(queue[i], e)
      BY <3>1 DEF Notify, Notified, TypeOK, ServerTypeOK
    <3> HIDE DEF e
    <3>4. Append(queue[i], e) # <<>> BY <3>2, AppendProperties
    <3> QED BY <3>3, <3>4
  <2>4. CASE Transform(i)
    <3>1. CASE BecomeDown(i) \/ BecomeLeader(i)
      BY <3>1 DEF BecomeDown, BecomeLeader, LeaveQuietly, Leave, TypeOK, ServerTypeOK
    <3>2. CASE BecomeFollower(i) \/ BecomeCandidate(i)
      BY <3>2 DEF BecomeFollower, BecomeCandidate, Awaits, TypeOK, ServerTypeOK
    <3> QED BY <2>4, <3>1, <3>2 DEF Transform
  <2>5. CASE Abort(i) BY <2>5 DEF Abort, TypeOK, ServerTypeOK
  <2>6. CASE Stop(i) \/ Stopped(i) BY <2>6 DEF Stop, Stopped, TypeOK
  <2> QED BY <2>1, <2>2, <2>3, <2>4, <2>5, <2>6, WhatMoves
<1> QED BY <1>1, <1>2, TypeCorrect, PTL DEF Spec

-----------------------------------------------------------------------------
(***************************************************************************)
(* Stop drains the queue, so what is last in it is what the server becomes. *)
(***************************************************************************)
StopInv ==
  \A i \in Server :
    /\ phase[i] = "draining" => IF queue[i] = <<>> THEN identity[i] = "Down"
                                                   ELSE Last(queue[i]).to = "Down"
    /\ phase[i] = "stopped" => identity[i] = "Down"

\* When Stop has returned the server is down, and stays so, unless a transformation
\* was queued behind that of Stop: a timeout between it and the end of the queue
\* does that, or a vote.
THEOREM LateEventRevives == Spec /\ [][DownStaysLast]_vars => []StopIsFinal
<1>1. Init => StopInv BY DEF Init, InitServer, StopInv
<1>2. TypeOK /\ StopInv /\ [Next]_vars /\ [DownStaysLast]_vars => StopInv'
  <2> SUFFICES ASSUME TypeOK, StopInv, [Next]_vars, [DownStaysLast]_vars, NEW i \in Server
               PROVE  /\ phase'[i] = "draining" =>
                           IF queue'[i] = <<>> THEN identity'[i] = "Down"
                                               ELSE Last(queue'[i]).to = "Down"
                      /\ phase'[i] = "stopped" => identity'[i] = "Down"
    BY DEF StopInv
  <2>1. queue[i] \in Seq(Event) BY DEF TypeOK, ServerTypeOK
  <2>2. CASE UNCHANGED vars BY <2>2 DEF vars, serverVars, triggerVars, StopInv
  <2> SUFFICES ASSUME DownStaysLast
               PROVE  /\ phase'[i] = "draining" =>
                           IF queue'[i] = <<>> THEN identity'[i] = "Down"
                                               ELSE Last(queue'[i]).to = "Down"
                      /\ phase'[i] = "stopped" => identity'[i] = "Down"
    BY <2>2
  <2>3. phase[i] = "draining" /\ queue'[i] # <<>> =>
          queue[i] # <<>> /\ Last(queue'[i]).to = "Down"
    BY DEF DownStaysLast, StopInv
  <2>4. CASE Unmoved(i) BY <2>3, <2>4 DEF Unmoved, StopInv
  <2>5. CASE NotifyTimeout(i)
    <3>1. identity'[i] = identity[i] /\ phase'[i] = phase[i] BY <2>5 DEF NotifyTimeout
    <3>2. queue'[i] = <<>> => queue[i] = <<>>
      <4>1. PICK term \in Nat : Notify(i, "Candidate", term)
        BY <2>5 DEF NotifyTimeout, TypeOK
      <4>2. "Candidate" \in Identity BY DEF Identity
      <4> QED BY <4>1, <4>2, NotifyKeepsEvents
    <3> QED BY <2>3, <3>1, <3>2 DEF StopInv
  <2>6. CASE Transform(i)
    <3>1. PICK target \in Identity :
            /\ phase' = phase /\ phase[i] \in {"up", "draining"}
            /\ queue[i] # <<>> /\ Head(queue[i]).to = target
            /\ identity' = [identity EXCEPT ![i] = target]
      BY <2>6 DEF Transform, BecomeDown, BecomeFollower, BecomeLeader, BecomeCandidate,
                  LeaveQuietly, Leave, Identity
    <3>2. ASSUME queue'[i] = <<>> PROVE Len(queue[i]) = 1
      <4>1. PICK e \in Event :
              queue'[i] = Tail(queue[i]) \/ queue'[i] = Append(Tail(queue[i]), e)
        <5>1. CASE BecomeCandidate(i)
          <6> DEFINE f == [to |-> "Leader", term |-> currentTerm[i] + 1]
          <6>1. f \in Event
            <7>1. currentTerm[i] \in Nat BY DEF TypeOK, ServerTypeOK
            <7>2. currentTerm[i] + 1 \in Nat BY <7>1
            <7> QED BY <7>2 DEF Event, Identity
          <6>2. queue'[i] \in {Tail(queue[i]), Append(Tail(queue[i]), f)}
            BY <5>1 DEF BecomeCandidate, Notified, TypeOK, ServerTypeOK
          <6> HIDE DEF f
          <6> QED BY <6>1, <6>2
        <5>2. CASE BecomeDown(i) \/ BecomeFollower(i) \/ BecomeLeader(i)
          <6>1. queue'[i] = Tail(queue[i])
            BY <5>2 DEF BecomeDown, BecomeFollower, BecomeLeader, LeaveQuietly, TypeOK,
                        ServerTypeOK
          <6>2. Head(queue[i]) \in Event BY <2>1, <3>1, HeadTailProperties
          <6> QED BY <6>1, <6>2
        <5> QED BY <2>6, <5>1, <5>2 DEF Transform
      <4>2. Tail(queue[i]) \in Seq(Event) /\ Len(Tail(queue[i])) = Len(queue[i]) - 1
            /\ Len(queue[i]) \in Nat
        BY <2>1, <3>1, HeadTailProperties, LenProperties
      <4>3. Append(Tail(queue[i]), e) # <<>> BY <4>2, AppendProperties
      <4> DEFINE t == Tail(queue[i])
                 n == Len(queue[i])
      <4>4. t = <<>> BY <3>2, <4>1, <4>3
      <4>5. Len(t) = n - 1 /\ n \in Nat BY <4>2
      <4> HIDE DEF t, n
      <4>6. n = 1 BY <4>4, <4>5
      <4> QED BY <4>6 DEF n
    <3>3. ASSUME phase[i] = "draining", queue'[i] = <<>> PROVE identity'[i] = "Down"
      <4>1. Last(queue[i]).to = "Down" BY <3>1, <3>3 DEF StopInv
      <4>2. Last(queue[i]) = Head(queue[i]) BY <2>1, <3>2, <3>3 DEF Last
      <4> QED BY <3>1, <4>1, <4>2 DEF TypeOK, ServerTypeOK
    <3> QED BY <2>3, <3>1, <3>3
  <2>7. CASE Abort(i) BY <2>7 DEF Abort, TypeOK, ServerTypeOK
  <2>8. CASE Stop(i)
    <3> DEFINE e == [to |-> "Down", term |-> 0]
    <3>1. e \in Event BY DEF Event, Identity
    <3>2. queue'[i] = Append(queue[i], e) /\ phase'[i] = "draining"
      BY <2>8 DEF Stop, TypeOK, ServerTypeOK
    <3>3. e.to = "Down" OBVIOUS
    <3> HIDE DEF e
    <3>4. /\ Append(queue[i], e) # <<>> /\ Len(Append(queue[i], e)) = Len(queue[i]) + 1
          /\ Append(queue[i], e)[Len(queue[i]) + 1] = e
      BY <2>1, <3>1, AppendProperties
    <3>5. Last(queue'[i]) = e BY <3>2, <3>4 DEF Last
    <3> QED BY <3>2, <3>3, <3>4, <3>5
  <2>9. CASE Stopped(i)
    <3>1. phase[i] = "draining" /\ queue[i] = <<>> /\ phase'[i] = "stopped"
          /\ identity' = identity
      BY <2>9 DEF Stopped, serverVars, TypeOK
    <3> QED BY <3>1 DEF StopInv
  <2> QED BY <2>4, <2>5, <2>6, <2>7, <2>8, <2>9, WhatMoves
<1>3. StopInv => StopIsFinal BY DEF StopInv, StopIsFinal
<1> QED BY <1>1, <1>2, <1>3, TypeCorrect, PTL DEF Spec
=============================================================================
