-------------------------- MODULE OneContenderProofs --------------------------
(***************************************************************************)
(* Theorems about the executions of Quintet in which the election timer of  *)
(* one server only ever expires, for every cluster and every bound.  It is  *)
(* the only one that asks for votes and that sends entries, so its log is   *)
(* the log; it may stand, win and stop at any moment.                       *)
(***************************************************************************)
EXTENDS QuintetProofs

\* Only l stands for election.
OneStands(l) == \A i \in Server \ {l} : TermLimit[i] = 0

-----------------------------------------------------------------------------
(***************************************************************************)
(* Who is what: the others follow, and all calls are made by l.             *)
(***************************************************************************)
NoCandidacy(q) == \A k \in 1..Len(q) : q[k].to \notin {"Candidate", "Leader"}

Follows(i) ==
  /\ identity[i] \notin {"Candidate", "Leader"}
  /\ NoCandidacy(queue[i])
  /\ ~adding[i] /\ expiring[i] = {}

CallsAreOf(l) ==
  /\ \A m \in voteReqs : m.from = l /\ m.to # l
  /\ \A r \in voteReplies : r.from = l
  /\ \A m \in appendReqs : m.from = l /\ m.to # l
  /\ \A r \in appendReplies : r.from = l /\ r.to # l

RoleInv(l) == CallsAreOf(l) /\ \A i \in Server \ {l} : Follows(i)

\* An event for a follower or for the end makes nobody a candidate.
LEMMA NoCandidacyAppended ==
  ASSUME NEW q \in Seq(Event), NoCandidacy(q),
         NEW to \in {"Follower", "Down"}, NEW term \in Nat
  PROVE  NoCandidacy(Append(q, [to |-> to, term |-> term]))
<1>1. [to |-> to, term |-> term] \in Event BY DEF Event, Identity
<1> DEFINE e == [to |-> to, term |-> term]
<1>2. e.to \notin {"Candidate", "Leader"} OBVIOUS
<1> HIDE DEF e
<1>3. /\ Len(Append(q, e)) = Len(q) + 1 /\ Len(q) \in Nat
      /\ \A k \in 1..Len(q) : Append(q, e)[k] = q[k]
      /\ Append(q, e)[Len(q) + 1] = e
  BY <1>1, AppendProperties DEF e
<1> QED BY <1>2, <1>3 DEF NoCandidacy, e

\* Taking an event from such a queue leads to no candidacy.
LEMMA NoCandidacyTaken ==
  ASSUME NEW q \in Seq(Event), NoCandidacy(q), q # <<>>
  PROVE  NoCandidacy(Tail(q)) /\ Head(q).to \notin {"Candidate", "Leader"}
<1>1. Len(q) \in Nat \ {0} BY EmptySeq
<1>2. /\ Len(Tail(q)) = Len(q) - 1
      /\ \A k \in 1..Len(Tail(q)) : Tail(q)[k] = q[k + 1]
  BY HeadTailProperties
<1>3. Head(q) = q[1] BY <1>1
<1> QED BY <1>1, <1>2, <1>3 DEF NoCandidacy

\* notify with a step down.
LEMMA NoCandidacyNotified ==
  ASSUME TypeOK, NEW i \in Server, NoCandidacy(queue[i]), NEW term \in Nat,
         Notify(i, "Follower", term)
  PROVE  NoCandidacy(queue'[i])
<1>1. queue[i] \in Seq(Event) BY DEF TypeOK, ServerTypeOK
<1>2. NoCandidacy(Notified(i, queue[i], "Follower", term))
  BY <1>1, NoCandidacyAppended DEF Notified
<1> QED BY <1>2 DEF Notify, TypeOK, ServerTypeOK

\* AppendEntries requests that are left behind are those that were there; those
\* that are live were not given up.
LEMMA LeftAppends ==
  ASSUME NEW reqs \in SUBSET AppendEntriesMessage, NEW gone \in SUBSET reqs,
         NEW rest \in Abandon(reqs, gone), NEW m \in rest
  PROVE  /\ \E n \in reqs :
              /\ m.from = n.from /\ m.to = n.to /\ m.term = n.term
              /\ m.prevLogIdx = n.prevLogIdx /\ m.logEntries = n.logEntries
              /\ m.commitIdx = n.commitIdx
         /\ m.live => m \in reqs \ gone
<1>1. PICK kept \in SUBSET gone :
         rest = (reqs \ gone) \cup {[n EXCEPT !.live = FALSE] : n \in kept}
  BY DEF Abandon
<1>2. CASE m \in reqs \ gone BY <1>2
<1>3. ASSUME NEW n \in kept, m = [n EXCEPT !.live = FALSE]
      PROVE  /\ ~m.live
             /\ m.from = n.from /\ m.to = n.to /\ m.term = n.term
             /\ m.prevLogIdx = n.prevLogIdx /\ m.logEntries = n.logEntries
             /\ m.commitIdx = n.commitIdx
  BY <1>3 DEF AppendEntriesMessage
<1> QED BY <1>1, <1>2, <1>3

\* The same for the RequestVote requests.
LEMMA LeftVotes ==
  ASSUME NEW reqs \in SUBSET RequestVoteMessage, NEW gone \in SUBSET reqs,
         NEW rest \in Abandon(reqs, gone), NEW m \in rest
  PROVE  /\ \E n \in reqs : m.from = n.from /\ m.to = n.to /\ m.term = n.term
         /\ m.live => m \in reqs \ gone
<1>1. PICK kept \in SUBSET gone :
         rest = (reqs \ gone) \cup {[n EXCEPT !.live = FALSE] : n \in kept}
  BY DEF Abandon
<1>2. CASE m \in reqs \ gone BY <1>2
<1>3. ASSUME NEW n \in kept, m = [n EXCEPT !.live = FALSE]
      PROVE  ~m.live /\ m.from = n.from /\ m.to = n.to /\ m.term = n.term
  BY <1>3 DEF RequestVoteMessage
<1> QED BY <1>1, <1>2, <1>3

\* The calls of l that it gives up when it leaves an identity or ends.
LEMMA RolesLeave ==
  ASSUME TypeOK, NEW l \in Server, RoleInv(l), NEW i \in Server, NEW target,
         Leave(i, target)
  PROVE  /\ \A m \in appendReqs' : m.from = l /\ m.to # l
         /\ \A r \in appendReplies' : r.from = l /\ r.to # l
         /\ \A r \in voteReplies' : r.from = l
<1>1. appendReqs' \in Abandon(appendReqs, LiveCalls(appendReqs, i)) BY DEF Leave
<1>2. LiveCalls(appendReqs, i) \in SUBSET appendReqs BY DEF LiveCalls
<1>3. ASSUME NEW m \in appendReqs' PROVE m.from = l /\ m.to # l
  <2>1. appendReqs \in SUBSET AppendEntriesMessage BY DEF TypeOK
  <2>2. PICK n \in appendReqs : m.from = n.from /\ m.to = n.to
    BY <1>1, <1>2, <2>1, LeftAppends
  <2> QED BY <2>2 DEF RoleInv, CallsAreOf
<1> QED BY <1>3 DEF Leave, RoleInv, CallsAreOf

\* A transformation other than into a candidate.
LEMMA RolesLeaveQuietly ==
  ASSUME TypeOK, NEW l \in Server, RoleInv(l), NEW i \in Server, NEW target,
         LeaveQuietly(i, target)
  PROVE  RoleInv(l)'
<1>1. Leave(i, target) BY DEF LeaveQuietly
<1>2. LiveCalls(voteReqs, i) \in SUBSET voteReqs BY DEF LiveCalls
<1>3. ASSUME NEW m \in voteReqs' PROVE m.from = l /\ m.to # l
  <2>1. voteReqs \in SUBSET RequestVoteMessage BY DEF TypeOK
  <2>2. voteReqs' \in Abandon(voteReqs, LiveCalls(voteReqs, i)) BY DEF LeaveQuietly
  <2>3. PICK n \in voteReqs : m.from = n.from /\ m.to = n.to
    BY <1>2, <2>1, <2>2, LeftVotes
  <2> QED BY <2>3 DEF RoleInv, CallsAreOf
<1>4. CallsAreOf(l)' BY <1>1, <1>3, RolesLeave DEF CallsAreOf
<1>5. ASSUME NEW j \in Server \ {l} PROVE Follows(j)'
  <2>1. CASE j # i
    <3>1. /\ identity'[j] = identity[j] /\ queue'[j] = queue[j]
          /\ adding'[j] = adding[j] /\ expiring'[j] = expiring[j]
      BY <1>1, <2>1 DEF LeaveQuietly, Leave, candidateVars, TypeOK, ServerTypeOK
    <3> QED BY <3>1 DEF RoleInv, Follows
  <2>2. CASE j = i
    <3>1. /\ identity'[i] = Head(queue[i]).to /\ queue'[i] = Tail(queue[i])
          /\ adding'[i] = adding[i] /\ queue[i] # <<>> /\ queue[i] \in Seq(Event)
          /\ expiring'[i] = expiring[i]
      BY <1>1 DEF LeaveQuietly, Leave, candidateVars, TypeOK, ServerTypeOK
    <3> QED BY <2>2, <3>1, NoCandidacyTaken DEF RoleInv, Follows
  <2> QED BY <2>1, <2>2
<1> QED BY <1>4, <1>5 DEF RoleInv

\* Only l, at most, becomes a candidate.
LEMMA RolesCandidate ==
  ASSUME TypeOK, NEW l \in Server, RoleInv(l), NEW i \in Server, BecomeCandidate(i)
  PROVE  i = l /\ RoleInv(l)'
<1>1. Leave(i, "Candidate") BY DEF BecomeCandidate
<1>2. i = l
  <2>1. CASE i # l
    <3>1. queue[i] # <<>> /\ queue[i] \in Seq(Event) /\ Head(queue[i]).to = "Candidate"
      BY <1>1 DEF Leave, TypeOK, ServerTypeOK
    <3> QED BY <2>1, <3>1, NoCandidacyTaken DEF RoleInv, Follows
  <2> QED BY <2>1
<1>3. ASSUME NEW m \in voteReqs' PROVE m.from = l /\ m.to # l
  <2>1. PICK rest \in Abandon(voteReqs, LiveCalls(voteReqs, i)) :
          voteReqs' = rest \cup {VoteRequest(i, j, currentTerm[i] + 1) : j \in Server \ {i}}
    BY DEF BecomeCandidate
  <2>2. LiveCalls(voteReqs, i) \in SUBSET voteReqs BY DEF LiveCalls
  <2>3. ASSUME m \in rest PROVE m.from = l /\ m.to # l
    <3>1. voteReqs \in SUBSET RequestVoteMessage BY DEF TypeOK
    <3>2. PICK n \in voteReqs : m.from = n.from /\ m.to = n.to
      BY <2>2, <2>3, <3>1, LeftVotes
    <3> QED BY <3>2 DEF RoleInv, CallsAreOf
  <2> QED BY <1>2, <2>1, <2>3 DEF VoteRequest
<1>4. CallsAreOf(l)' BY <1>1, <1>3, RolesLeave DEF CallsAreOf
<1>5. ASSUME NEW j \in Server \ {l} PROVE Follows(j)'
  <2>1. PICK q : queue' = [queue EXCEPT ![i] = q] BY DEF BecomeCandidate
  <2>2. /\ identity'[j] = identity[j] /\ queue'[j] = queue[j]
        /\ adding'[j] = adding[j] /\ expiring'[j] = expiring[j]
    BY <1>1, <1>2, <2>1 DEF BecomeCandidate, Leave, TypeOK, ServerTypeOK
  <2> QED BY <2>2 DEF RoleInv, Follows
<1> QED BY <1>2, <1>4, <1>5 DEF RoleInv

\* An exception ends the process of l alone, which makes all calls.
LEMMA RolesAbort ==
  ASSUME TypeOK, NEW l \in Server, RoleInv(l), Abort(l)
  PROVE  RoleInv(l)'
<1>1. LiveCalls(appendReqs, l) \in SUBSET appendReqs BY DEF LiveCalls
<1>2. ASSUME NEW m \in appendReqs' PROVE m.from = l /\ m.to # l
  <2>1. appendReqs \in SUBSET AppendEntriesMessage BY DEF TypeOK
  <2>2. appendReqs' \in Abandon(appendReqs, LiveCalls(appendReqs, l)) BY DEF Abort
  <2>3. PICK n \in appendReqs : m.from = n.from /\ m.to = n.to
    BY <1>1, <2>1, <2>2, LeftAppends
  <2> QED BY <2>3 DEF RoleInv, CallsAreOf
<1>3. CallsAreOf(l)' BY <1>2 DEF Abort, voteCalls, RoleInv, CallsAreOf
<1>4. ASSUME NEW j \in Server \ {l} PROVE Follows(j)'
  <2>1. /\ identity'[j] = identity[j] /\ queue'[j] = queue[j]
        /\ adding'[j] = adding[j] /\ expiring'[j] = expiring[j]
    BY DEF Abort, TypeOK, ServerTypeOK
  <2> QED BY <2>1 DEF RoleInv, Follows
<1> QED BY <1>3, <1>4 DEF RoleInv

\* A handler may have its server step down, and answers l.
LEMMA RolesServe ==
  ASSUME TypeOK, NEW l \in Server, RoleInv(l),
         \/ \E m \in voteReqs : ServeRequestVote(m)
         \/ \E m \in appendReqs : ServeAppendEntries(m)
  PROVE  RoleInv(l)'
<1> USE DEF serverVars, logVars, applyVars, triggerVars, candidateVars, leaderVars,
            voteCalls, appendCalls
<1>1. CallsAreOf(l)'
  <2>1. ASSUME NEW m \in voteReqs, ServeRequestVote(m) PROVE CallsAreOf(l)'
    BY <2>1 DEF ServeRequestVote, VoteAnswer, RoleInv, CallsAreOf
  <2>2. ASSUME NEW m \in appendReqs, ServeAppendEntries(m) PROVE CallsAreOf(l)'
    BY <2>2 DEF ServeAppendEntries, AppendAnswer, RoleInv, CallsAreOf
  <2> QED BY <2>1, <2>2
<1>2. PICK i \in Server, term \in Nat :
        /\ identity' = identity /\ adding' = adding /\ expiring' = expiring
        /\ queue' = queue \/ Notify(i, "Follower", term)
  <2>1. ASSUME NEW m \in voteReqs, ServeRequestVote(m)
        PROVE  /\ m.to \in Server /\ m.term \in Nat
               /\ identity' = identity /\ adding' = adding /\ expiring' = expiring
               /\ queue' = queue \/ Notify(m.to, "Follower", m.term)
    BY <2>1 DEF ServeRequestVote, RPCRequestVote, TypeOK, RequestVoteMessage
  <2>2. ASSUME NEW m \in appendReqs, ServeAppendEntries(m)
        PROVE  /\ m.to \in Server /\ m.term \in Nat
               /\ identity' = identity /\ adding' = adding /\ expiring' = expiring
               /\ queue' = queue \/ Notify(m.to, "Follower", m.term)
    BY <2>2 DEF ServeAppendEntries, RPCAppendEntries, TypeOK, AppendEntriesMessage
  <2> QED BY <2>1, <2>2
<1>3. ASSUME NEW j \in Server \ {l} PROVE NoCandidacy(queue'[j])
  <2>1. NoCandidacy(queue[j]) BY DEF RoleInv, Follows
  <2>2. CASE queue'[j] = queue[j] BY <2>1, <2>2
  <2>3. CASE queue'[j] # queue[j]
    <3>1. Notify(i, "Follower", term) /\ i = j
      BY <1>2, <2>3 DEF Notify, TypeOK, ServerTypeOK
    <3> QED BY <2>1, <3>1, NoCandidacyNotified
  <2> QED BY <2>2, <2>3
<1> QED BY <1>1, <1>2, <1>3 DEF RoleInv, Follows

\* Every step keeps the roles.
LEMMA RoleStep ==
  ASSUME TypeOK, NEW l \in Server, OneStands(l), RoleInv(l), [Next]_vars
  PROVE  RoleInv(l)'
<1> USE DEF serverVars, logVars, applyVars, triggerVars, candidateVars, leaderVars,
            voteCalls, appendCalls
<1>1. ASSUME NEW i \in Server, Expires(i) PROVE RoleInv(l)'
  <2>1. i = l
    <3>1. currentTerm[i] \in Nat BY DEF TypeOK, ServerTypeOK
    <3>2. currentTerm[i] < TermLimit[i] BY <1>1 DEF Expires
    <3>3. TermLimit[i] \in Nat /\ TermLimit[i] # 0 BY <3>1, <3>2, BoundAssumption
    <3> QED BY <3>3 DEF OneStands
  <2>2. \A j \in Server \ {l} : expiring'[j] = expiring[j]
    BY <1>1, <2>1 DEF Expires, TypeOK
  <2> QED BY <1>1, <2>2 DEF Expires, RoleInv, CallsAreOf, Follows
<1>2. ASSUME NEW i \in Server, Transform(i) PROVE RoleInv(l)'
  BY <1>2, RolesLeaveQuietly, RolesCandidate
  DEF Transform, BecomeDown, BecomeFollower, BecomeLeader
<1>3. ASSUME NEW i \in Server, Stop(i) PROVE RoleInv(l)'
  <2>1. ASSUME NEW j \in Server \ {l} PROVE NoCandidacy(queue'[j])
    <3>1. NoCandidacy(queue[j]) /\ queue[j] \in Seq(Event)
      BY DEF RoleInv, Follows, TypeOK, ServerTypeOK
    <3>2. NoCandidacy(Append(queue[j], [to |-> "Down", term |-> 0]))
      BY <3>1, NoCandidacyAppended
    <3>3. \/ queue'[j] = queue[j]
          \/ queue'[j] = Append(queue[j], [to |-> "Down", term |-> 0])
      BY <1>3 DEF Stop, TypeOK, ServerTypeOK
    <3> QED BY <3>1, <3>2, <3>3
  <2> QED BY <1>3, <2>1 DEF Stop, RoleInv, CallsAreOf, Follows
<1>4. ASSUME NEW i \in Server, Stopped(i) \/ AddLogState(i) PROVE RoleInv(l)'
  <2>1. \A j \in Server \ {l} : ~adding'[j]
    BY <1>4 DEF Stopped, AddLogState, RoleInv, Follows, TypeOK
  <2> QED BY <1>4, <2>1 DEF Stopped, AddLogState, RoleInv, CallsAreOf, Follows
<1>5. ASSUME NEW r \in voteReplies, TakeVoteReply(r) PROVE RoleInv(l)'
  <2>1. r.from = l BY DEF RoleInv, CallsAreOf
  <2>2. \A j \in Server \ {l} : queue'[j] = queue[j]
    BY <1>5, <2>1 DEF TakeVoteReply, Notify, TypeOK, ServerTypeOK
  <2> QED BY <1>5, <2>2 DEF TakeVoteReply, RoleInv, CallsAreOf, Follows
<1>6. ASSUME NEW i \in Server, NEW j \in Server, SendAppendEntries(i, j)
      PROVE  RoleInv(l)'
  <2>1. i = l /\ i # j BY <1>6 DEF SendAppendEntries, RoleInv, Follows
  <2> DEFINE gone == {m \in LiveCalls(appendReqs, i) : m.to = j}
  <2>2. PICK rest \in Abandon(appendReqs, gone) :
          appendReqs' = rest \cup {AppendRequest(i, j)}
    BY <1>6 DEF SendAppendEntries
  <2>3. gone \in SUBSET appendReqs BY DEF LiveCalls
  <2> HIDE DEF gone
  <2>4. ASSUME NEW m \in rest PROVE m.from = l /\ m.to # l
    <3>1. appendReqs \in SUBSET AppendEntriesMessage BY DEF TypeOK
    <3>2. PICK n \in appendReqs : m.from = n.from /\ m.to = n.to
      BY <2>3, <3>1, LeftAppends
    <3> QED BY <3>2 DEF RoleInv, CallsAreOf
  <2>5. AppendRequest(i, j).from = l /\ AppendRequest(i, j).to # l
    BY <2>1 DEF AppendRequest
  <2>6. \A m \in appendReqs' : m.from = l /\ m.to # l BY <2>2, <2>4, <2>5
  <2> QED BY <1>6, <2>6 DEF SendAppendEntries, RoleInv, CallsAreOf, Follows
<1>7. ASSUME NEW i \in Server, NEW j \in Server, SendAppendEntriesThrows(i, j)
      PROVE  RoleInv(l)'
  <2>1. i = l BY <1>7 DEF SendAppendEntriesThrows, RoleInv, Follows
  <2> QED BY <1>7, <2>1, RolesAbort DEF SendAppendEntriesThrows
<1>8. ASSUME NEW r \in appendReplies, TakeAppendReply(r) PROVE RoleInv(l)'
  <2>1. r.from = l BY DEF RoleInv, CallsAreOf
  <2>2. CASE TakeAppendSuccessCrashes(r)
    BY <2>1, <2>2, RolesAbort DEF TakeAppendSuccessCrashes
  <2>3. CASE ~TakeAppendSuccessCrashes(r)
    <3>1. \A j \in Server \ {l} : queue'[j] = queue[j]
      BY <1>8, <2>1, <2>3 DEF TakeAppendReply, TakeAppendSuccess, TakeAppendGreaterTerm,
                              TakeAppendRejection, Notify, TypeOK, ServerTypeOK
    <3>2. /\ identity' = identity /\ adding' = adding /\ expiring' = expiring
          /\ voteReqs' = voteReqs /\ voteReplies' = voteReplies
          /\ appendReqs' = appendReqs /\ appendReplies' = appendReplies \ {r}
      BY <1>8, <2>3 DEF TakeAppendReply, TakeAppendSuccess, TakeAppendGreaterTerm,
                        TakeAppendRejection
    <3> QED BY <3>1, <3>2 DEF RoleInv, CallsAreOf, Follows
  <2> QED BY <2>2, <2>3
<1>9. ASSUME NEW i \in Server, NEW req \in Request, AddLog(i, req) PROVE RoleInv(l)'
  <2>1. i = l BY <1>9 DEF AddLog, RoleInv, Follows
  <2>2. \A j \in Server \ {l} : adding'[j] = adding[j]
    BY <1>9, <2>1 DEF AddLog, TypeOK
  <2> QED BY <1>9, <2>2 DEF AddLog, RoleInv, CallsAreOf, Follows
<1>10. ASSUME NEW i \in Server, NotifyTimeout(i) PROVE RoleInv(l)'
  <2>1. i = l BY <1>10 DEF NotifyTimeout, RoleInv, Follows
  <2>2. \A j \in Server \ {l} : queue'[j] = queue[j] /\ expiring'[j] = expiring[j]
    BY <1>10, <2>1 DEF NotifyTimeout, Notify, TypeOK, ServerTypeOK
  <2> QED BY <1>10, <2>2 DEF NotifyTimeout, RoleInv, CallsAreOf, Follows
<1>11. CASE UNCHANGED vars
  BY <1>11 DEF vars, RoleInv, CallsAreOf, Follows
<1> QED
  BY <1>1, <1>2, <1>3, <1>4, <1>5, <1>6, <1>7, <1>8, <1>9, <1>10, <1>11, RolesServe DEF Next

\* The roles before any timer has expired.
LEMMA RoleInit ==
  ASSUME Init, NEW l \in Server
  PROVE  RoleInv(l)
BY DEF Init, InitServer, RoleInv, CallsAreOf, Follows, NoCandidacy

-----------------------------------------------------------------------------
(***************************************************************************)
(* One log: what any server has, and what any message carries, is part of   *)
(* the log of l, which only grows.                                          *)
(***************************************************************************)

\* s stands in t behind the first n entries.
Stands(s, n, t) ==
  /\ n + Len(s) <= Len(t)
  /\ \A k \in 1..Len(s) : s[k] = t[n + k]

LogInv(l) ==
  /\ \A i \in Server : Stands(entries[i], 0, entries[l])
  /\ \A m \in appendReqs : Stands(m.logEntries, m.prevLogIdx, entries[l])

\* A merge takes nothing away, adds what the message carries, and yields a part
\* of the log again.
LEMMA MergeStands ==
  ASSUME NEW log \in Seq(Entry), NEW t \in Seq(Entry), NEW m \in AppendEntriesMessage,
         HasPrev(log, m), Stands(log, 0, t), Stands(m.logEntries, m.prevLogIdx, t)
  PROVE  /\ Stands(Merge(log, m), 0, t)
         /\ Len(log) <= Len(Merge(log, m))
         /\ m.prevLogIdx + Len(m.logEntries) <= Len(Merge(log, m))
<1> DEFINE new(k) == IF Skips(log, m, k) THEN log[m.prevLogIdx + k] ELSE m.logEntries[k]
           head == SubSeq(log, 1, m.prevLogIdx)
           rest == [k \in 1..Len(m.logEntries) |-> new(k)]
<1>1. /\ m.logEntries \in Seq(Entry) /\ Len(m.logEntries) \in Nat
      /\ m.prevLogIdx \in Nat /\ m.prevLogIdx <= Len(log)
      /\ Len(log) \in Nat /\ Len(t) \in Nat
  BY LenProperties DEF AppendEntriesMessage, HasPrev
<1>2. CASE Skips(log, m, Len(m.logEntries))
  <2>1. Merge(log, m) = log BY <1>2 DEF Merge
  <2>2. CASE Len(m.logEntries) = 0 BY <1>1, <2>1, <2>2
  <2>3. CASE Len(m.logEntries) # 0
    <3>1. SameTerm(log, m, Len(m.logEntries)) BY <1>1, <1>2, <2>3 DEF Skips
    <3> QED BY <1>1, <2>1, <3>1 DEF SameTerm
  <2> QED BY <2>2, <2>3
<1>3. CASE ~Skips(log, m, Len(m.logEntries))
  <2>1. Merge(log, m) = head \o rest BY <1>3 DEF Merge
  <2>2. ASSUME NEW k \in 1..Len(m.logEntries)
        PROVE  new(k) = t[m.prevLogIdx + k] /\ new(k) \in Entry
    <3>1. m.logEntries[k] = t[m.prevLogIdx + k] /\ m.logEntries[k] \in Entry
      BY <1>1 DEF Stands
    <3>2. Skips(log, m, k) => log[m.prevLogIdx + k] = t[m.prevLogIdx + k]
      <4>1. Skips(log, m, k) => SameTerm(log, m, k) BY <1>1 DEF Skips
      <4> QED BY <1>1, <4>1 DEF SameTerm, Stands
    <3> QED BY <3>1, <3>2
  <2>3. /\ head \in Seq(Entry) /\ Len(head) = m.prevLogIdx
        /\ \A k \in 1..m.prevLogIdx : head[k] = log[k]
    BY <1>1
  <2>4. /\ rest \in Seq(Entry) /\ Len(rest) = Len(m.logEntries)
        /\ \A k \in 1..Len(m.logEntries) : rest[k] = t[m.prevLogIdx + k]
    <3> HIDE DEF new
    <3> QED BY <1>1, <2>2
  <2> HIDE DEF head, rest, new
  <2>5. /\ head \o rest \in Seq(Entry)
        /\ Len(head \o rest) = m.prevLogIdx + Len(m.logEntries)
        /\ \A k \in 1..(m.prevLogIdx + Len(m.logEntries)) :
             (head \o rest)[k] = IF k <= m.prevLogIdx THEN head[k]
                                                      ELSE rest[k - m.prevLogIdx]
    <3>1. /\ head \o rest \in Seq(Entry)
          /\ Len(head \o rest) = Len(head) + Len(rest)
          /\ \A k \in 1..(Len(head) + Len(rest)) :
               (head \o rest)[k] = IF k <= Len(head) THEN head[k]
                                                    ELSE rest[k - Len(head)]
      <4>1. head \in Seq(Entry) /\ rest \in Seq(Entry) BY <2>3, <2>4
      <4> QED BY <4>1, ConcatProperties
    <3> QED BY <2>3, <2>4, <3>1
  <2>6. ASSUME NEW k \in 1..(m.prevLogIdx + Len(m.logEntries))
        PROVE  (head \o rest)[k] = t[k]
    <3> DEFINE p == m.prevLogIdx
    <3>3. k \in Int /\ p \in Int BY <1>1
    <3>4. k <= p \/ k > p
      <4> HIDE DEF p
      <4> QED BY <3>3
    <3>1. CASE k <= m.prevLogIdx
      BY <1>1, <2>3, <2>5, <3>1 DEF Stands
    <3>2. CASE k > m.prevLogIdx
      <4>1. k - m.prevLogIdx \in 1..Len(m.logEntries) /\ m.prevLogIdx + (k - m.prevLogIdx) = k
        BY <1>1, <3>2
      <4>2. rest[k - m.prevLogIdx] = t[m.prevLogIdx + (k - m.prevLogIdx)]
        BY <2>4, <4>1
      <4>3. rest[k - m.prevLogIdx] = t[k] BY <4>1, <4>2
      <4>4. (head \o rest)[k] = IF k <= m.prevLogIdx THEN head[k]
                                                     ELSE rest[k - m.prevLogIdx]
        BY <2>5
      <4>5. ~(k <= m.prevLogIdx) BY <3>2, <3>3
      <4> QED BY <4>3, <4>4, <4>5
    <3> QED BY <3>1, <3>2, <3>4
  <2>7. Len(log) <= m.prevLogIdx + Len(m.logEntries)
    <3>1. PICK n \in 1..Len(m.logEntries) : ~SameTerm(log, m, n) BY <1>3 DEF Skips
    <3>2. m.logEntries[n] = t[m.prevLogIdx + n] BY <1>1 DEF Stands
    <3>3. m.prevLogIdx + n <= Len(log) => log[m.prevLogIdx + n] = t[m.prevLogIdx + n]
      BY <1>1 DEF Stands
    <3> QED BY <1>1, <3>1, <3>2, <3>3 DEF SameTerm
  <2>8. Stands(head \o rest, 0, t)
    BY <1>1, <2>5, <2>6 DEF Stands
  <2> QED BY <1>1, <2>1, <2>5, <2>7, <2>8
<1> QED BY <1>2, <1>3

\* What stands in a log stands in a longer one.
LEMMA StandsLonger ==
  ASSUME NEW s \in Seq(Entry), NEW n \in Nat, NEW t \in Seq(Entry), NEW u \in Seq(Entry),
         Stands(s, n, t), Stands(t, 0, u)
  PROVE  Stands(s, n, u)
<1>1. Len(s) \in Nat /\ Len(t) \in Nat /\ Len(u) \in Nat BY LenProperties
<1>2. \A k \in 1..Len(s) : n + k \in 1..Len(t) BY <1>1 DEF Stands
<1> QED BY <1>1, <1>2 DEF Stands

\* A log stands in itself.
LEMMA StandsItself ==
  ASSUME NEW s \in Seq(Entry)
  PROVE  Stands(s, 0, s)
<1>1. Len(s) \in Nat BY LenProperties
<1> QED BY <1>1 DEF Stands

\* One more entry at the end of the log.
LEMMA StandsAppend ==
  ASSUME NEW s \in Seq(Entry), NEW e \in Entry
  PROVE  Stands(s, 0, Append(s, e))
<1>1. /\ Len(s) \in Nat /\ Len(Append(s, e)) = Len(s) + 1
      /\ \A k \in 1..Len(s) : Append(s, e)[k] = s[k]
  BY AppendProperties, LenProperties
<1> QED BY <1>1 DEF Stands

\* Where no log changes, and no request carries anything new.
LEMMA LogKept ==
  ASSUME NEW l \in Server, LogInv(l), entries' = entries,
         \A m \in appendReqs' :
           \/ Stands(m.logEntries, m.prevLogIdx, entries[l])
           \/ \E n \in appendReqs :
                m.prevLogIdx = n.prevLogIdx /\ m.logEntries = n.logEntries
  PROVE  LogInv(l)'
<1>1. \A m \in appendReqs' : Stands(m.logEntries, m.prevLogIdx, entries[l])
  BY DEF LogInv
<1> QED BY <1>1 DEF LogInv

\* Requests that are given up carry what they carried.
LEMMA LogAbandoned ==
  ASSUME TypeOK, NEW l \in Server, LogInv(l), entries' = entries, NEW i \in Server,
         appendReqs' \in Abandon(appendReqs, LiveCalls(appendReqs, i))
  PROVE  LogInv(l)'
<1>1. LiveCalls(appendReqs, i) \in SUBSET appendReqs BY DEF LiveCalls
<1>2. appendReqs \in SUBSET AppendEntriesMessage BY DEF TypeOK
<1>3. ASSUME NEW m \in appendReqs'
      PROVE  \E n \in appendReqs :
               m.prevLogIdx = n.prevLogIdx /\ m.logEntries = n.logEntries
  BY <1>1, <1>2, LeftAppends
<1> QED BY <1>3, LogKept

\* What createAppendEntriesMessage puts into a message is the end of the log of l.
LEMMA LogSent ==
  ASSUME TypeOK, NEW l \in Server, LogInv(l), NEW j \in Server, SendAppendEntries(l, j)
  PROVE  LogInv(l)'
<1> DEFINE gone == {m \in LiveCalls(appendReqs, l) : m.to = j}
           a == AppendRequest(l, j)
<1>1. PICK rest \in Abandon(appendReqs, gone) : appendReqs' = rest \cup {a}
  BY DEF SendAppendEntries
<1>2. gone \in SUBSET appendReqs BY DEF LiveCalls
<1>3. appendReqs \in SUBSET AppendEntriesMessage BY DEF TypeOK
<1>4. Stands(a.logEntries, a.prevLogIdx, entries[l])
  <2> DEFINE n == nextIdx[l][j]
             log == entries[l]
  <2>1. n \in Nat \ {0} /\ log \in Seq(Entry) /\ n - 1 <= Len(log) /\ Len(log) \in Nat
    BY LenProperties DEF SendAppendEntries, TypeOK, ServerTypeOK
  <2>2. a.logEntries = SubSeq(log, n, Len(log)) /\ a.prevLogIdx = n - 1
    BY DEF AppendRequest, EntriesFrom
  <2> HIDE DEF n, log, a
  <2>3. \A k \in n..Len(log) : log[k] \in Entry BY <2>1
  <2>4. /\ Len(SubSeq(log, n, Len(log))) = Len(log) - n + 1
        /\ \A k \in 1..(Len(log) - n + 1) : SubSeq(log, n, Len(log))[k] = log[n + k - 1]
    BY <2>1, <2>3, SubSeqProperties
  <2>5. Stands(a.logEntries, a.prevLogIdx, log)
    BY <2>1, <2>2, <2>4 DEF Stands
  <2> QED BY <2>5 DEF log
<1> HIDE DEF gone, a
<1>5. ASSUME NEW m \in rest
      PROVE  \E n \in appendReqs :
               m.prevLogIdx = n.prevLogIdx /\ m.logEntries = n.logEntries
  BY <1>2, <1>3, LeftAppends
<1>6. entries' = entries BY DEF SendAppendEntries, serverVars, logVars
<1> QED BY <1>1, <1>4, <1>5, <1>6, LogKept

\* A follower stores a part of the log, and loses nothing.
LEMMA LogServed ==
  ASSUME TypeOK, NEW l \in Server, RoleInv(l), LogInv(l),
         NEW m \in appendReqs, ServeAppendEntries(m)
  PROVE  /\ LogInv(l)'
         /\ \A i \in Server : Stands(entries[i], 0, entries'[i])
         /\ Accepts(m.to, m) => m.prevLogIdx + Len(m.logEntries) <= Len(entries'[m.to])
<1> DEFINE i == m.to
<1>1. /\ m \in AppendEntriesMessage /\ i \in Server /\ i # l
      /\ \A j \in Server : entries[j] \in Seq(Entry)
  BY DEF TypeOK, ServerTypeOK, AppendEntriesMessage, RoleInv, CallsAreOf
<1>2. appendReqs' = appendReqs \ {m} BY DEF ServeAppendEntries
<1>3. CASE Accepts(i, m)
  <2> DEFINE new == Merge(entries[i], m)
  <2>1. entries' = [entries EXCEPT ![i] = new]
    BY <1>3 DEF ServeAppendEntries, RPCAppendEntries, Accepts
  <2>2. HasPrev(entries[i], m) BY <1>3 DEF Accepts
  <2>3. Stands(entries[i], 0, entries[l]) /\ Stands(m.logEntries, m.prevLogIdx, entries[l])
    BY <1>1 DEF LogInv
  <2>4. new \in Seq(Entry) BY <1>1, <2>2, MergeType
  <2>5. /\ Stands(new, 0, entries[l]) /\ Len(entries[i]) <= Len(new)
        /\ m.prevLogIdx + Len(m.logEntries) <= Len(new)
    BY <1>1, <2>2, <2>3, MergeStands
  <2> HIDE DEF new, i
  <2>6. Stands(entries[i], 0, new)
    <3>1. Len(entries[i]) \in Nat /\ Len(new) \in Nat BY <1>1, <2>4, LenProperties
    <3> QED BY <2>3, <2>5, <3>1 DEF Stands
  <2>7. entries'[i] = new /\ \A j \in Server \ {i} : entries'[j] = entries[j]
    BY <1>1, <2>1 DEF TypeOK, ServerTypeOK
  <2>8. \A j \in Server : Stands(entries[j], 0, entries'[j])
    BY <1>1, <2>6, <2>7, StandsItself
  <2>9. LogInv(l)' BY <1>1, <1>2, <2>5, <2>7 DEF LogInv
  <2> QED BY <2>5, <2>7, <2>8, <2>9 DEF i
<1>4. CASE ~Accepts(i, m)
  <2>1. entries' = entries
    BY <1>1, <1>4 DEF ServeAppendEntries, RPCAppendEntries, serverVars, logVars, TypeOK,
                      ServerTypeOK
  <2>2. LogInv(l)' BY <1>2, <2>1 DEF LogInv
  <2> QED BY <1>1, <1>4, <2>1, <2>2, StandsItself
<1> QED BY <1>3, <1>4

\* addLog puts an entry at the end of the log.
LEMMA LogAdded ==
  ASSUME TypeOK, NEW l \in Server, LogInv(l), NEW req \in Request, AddLog(l, req)
  PROVE  /\ LogInv(l)'
         /\ \A i \in Server : Stands(entries[i], 0, entries'[i])
<1> DEFINE e == [term |-> currentTerm[l], req |-> req]
<1>1. e \in Entry BY DEF Entry, Label, TypeOK, ServerTypeOK
<1>2. /\ \A i \in Server : entries[i] \in Seq(Entry)
      /\ \A m \in appendReqs : m.logEntries \in Seq(Entry) /\ m.prevLogIdx \in Nat
  BY DEF TypeOK, ServerTypeOK, AppendEntriesMessage
<1>3. /\ \A i \in Server \ {l} : entries'[i] = entries[i]
      /\ entries'[l] \in {entries[l], Append(entries[l], e)}
      /\ appendReqs' = appendReqs
  BY DEF AddLog, appendCalls, TypeOK, ServerTypeOK
<1> HIDE DEF e
<1>4. Stands(entries[l], 0, entries'[l]) /\ entries'[l] \in Seq(Entry)
  <2>1. entries[l] \in Seq(Entry) BY <1>2
  <2>2. Append(entries[l], e) \in Seq(Entry) BY <1>1, <2>1, AppendProperties
  <2> QED BY <1>1, <1>3, <2>1, <2>2, StandsItself, StandsAppend
<1>5. ASSUME NEW i \in Server PROVE Stands(entries[i], 0, entries'[l])
  <2>1. Stands(entries[i], 0, entries[l]) BY DEF LogInv
  <2> QED BY <1>2, <1>4, <2>1, StandsLonger
<1>6. ASSUME NEW m \in appendReqs PROVE Stands(m.logEntries, m.prevLogIdx, entries'[l])
  <2>1. m.logEntries \in Seq(Entry) /\ m.prevLogIdx \in Nat BY <1>2
  <2>2. Stands(m.logEntries, m.prevLogIdx, entries[l]) BY DEF LogInv
  <2> QED BY <1>2, <1>4, <2>1, <2>2, StandsLonger
<1>7. Stands(entries'[l], 0, entries'[l]) BY <1>4, StandsItself
<1> QED BY <1>2, <1>3, <1>4, <1>5, <1>6, <1>7, StandsItself DEF LogInv

\* Every step keeps the one log, and takes no entry from anybody.
LEMMA LogStep ==
  ASSUME TypeOK, NEW l \in Server, RoleInv(l), LogInv(l), [Next]_vars
  PROVE  LogInv(l)' /\ \A i \in Server : Stands(entries[i], 0, entries'[i])
<1> USE DEF serverVars, logVars
<1>1. \A i \in Server : Stands(entries[i], 0, entries[i])
  BY StandsItself DEF TypeOK, ServerTypeOK
<1>2. ASSUME NEW m \in appendReqs, ServeAppendEntries(m)
      PROVE  LogInv(l)' /\ \A i \in Server : Stands(entries[i], 0, entries'[i])
  BY <1>2, LogServed
<1>3. ASSUME NEW i \in Server, NEW req \in Request, AddLog(i, req)
      PROVE  LogInv(l)' /\ \A j \in Server : Stands(entries[j], 0, entries'[j])
  <2>1. i = l BY <1>3 DEF AddLog, RoleInv, Follows
  <2> QED BY <1>3, <2>1, LogAdded
<1>4. ASSUME NEW i \in Server, Abort(i) PROVE LogInv(l)' /\ entries' = entries
  BY <1>4, LogAbandoned DEF Abort
<1>5. ASSUME NEW i \in Server, Transform(i) PROVE LogInv(l)' /\ entries' = entries
  <2>1. PICK target \in Identity : Leave(i, target)
    BY <1>5 DEF Transform, BecomeDown, BecomeFollower, BecomeLeader, BecomeCandidate,
                LeaveQuietly, Identity
  <2> QED BY <2>1, LogAbandoned DEF Leave
<1>6. ASSUME NEW i \in Server, NEW j \in Server,
             SendAppendEntries(i, j) \/ SendAppendEntriesThrows(i, j)
      PROVE  LogInv(l)' /\ entries' = entries
  <2>1. CASE SendAppendEntries(i, j)
    <3>1. i = l BY <2>1 DEF SendAppendEntries, RoleInv, Follows
    <3> QED BY <2>1, <3>1, LogSent DEF SendAppendEntries
  <2>2. CASE SendAppendEntriesThrows(i, j)
    BY <1>4, <2>2 DEF SendAppendEntriesThrows
  <2> QED BY <1>6, <2>1, <2>2
<1>7. ASSUME NEW r \in appendReplies, TakeAppendReply(r)
      PROVE  LogInv(l)' /\ entries' = entries
  <2>1. r.from \in Server BY DEF TypeOK, AppendReply
  <2>2. CASE TakeAppendSuccessCrashes(r)
    BY <1>4, <2>1, <2>2 DEF TakeAppendSuccessCrashes
  <2>3. CASE ~TakeAppendSuccessCrashes(r)
    <3>1. entries' = entries /\ appendReqs' = appendReqs
      BY <1>7, <2>3 DEF TakeAppendReply, TakeAppendSuccess, TakeAppendGreaterTerm,
                        TakeAppendRejection
    <3> QED BY <3>1, LogKept
  <2> QED BY <2>2, <2>3
<1>8. ASSUME \/ \E i \in Server : \/ Expires(i) \/ NotifyTimeout(i)
                                \/ AddLogState(i) \/ Stop(i) \/ Stopped(i)
             \/ \E m \in voteReqs : ServeRequestVote(m)
             \/ \E r \in voteReplies : TakeVoteReply(r)
             \/ UNCHANGED vars
      PROVE  LogInv(l)' /\ entries' = entries
  <2>1. entries' = entries /\ appendReqs' = appendReqs
    BY <1>8 DEF Expires, NotifyTimeout, AddLogState, Stop, Stopped, ServeRequestVote,
                RPCRequestVote, TakeVoteReply, appendCalls, vars
  <2> QED BY <2>1, LogKept
<1> QED BY <1>1, <1>2, <1>3, <1>5, <1>6, <1>7, <1>8 DEF Next

\* The empty logs of the beginning.
LEMMA LogInit ==
  ASSUME Init, NEW l \in Server
  PROVE  LogInv(l)
BY DEF Init, InitServer, LogInv, Stands

\* What stands at the beginning of a log is a prefix of it.
LEMMA StandsIsPrefix ==
  ASSUME NEW S, NEW s \in Seq(S), NEW t \in Seq(S), Stands(s, 0, t)
  PROVE  IsPrefix(s, t)
<1>1. /\ Len(s) \in Nat /\ Len(t) \in Nat /\ Len(s) <= Len(t)
      /\ \A k \in 1..Len(s) : s[k] = t[k]
  BY LenProperties DEF Stands
<1>2. SubSeq(s, 1, Len(s)) = s BY SubSeqFull
<1>3. /\ SubSeq(t, 1, Len(s)) \in Seq(S) /\ Len(SubSeq(t, 1, Len(s))) = Len(s)
      /\ \A k \in 1..Len(s) : SubSeq(t, 1, Len(s))[k] = t[k]
  BY <1>1
<1>4. SubSeq(t, 1, Len(s)) = s BY <1>1, <1>3, SeqEqual
<1> QED BY <1>1, <1>2, <1>4 DEF IsPrefix

\* Of two parts of one log one is a prefix of the other.
LEMMA PartsAgree ==
  ASSUME NEW s \in Seq(Entry), NEW t \in Seq(Entry), NEW u \in Seq(Entry),
         Stands(s, 0, u), Stands(t, 0, u)
  PROVE  Comparable(s, t)
<1>1. Len(s) \in Nat /\ Len(t) \in Nat /\ Len(u) \in Nat BY LenProperties
<1>2. CASE Len(s) <= Len(t)
  <2>1. Stands(s, 0, t) BY <1>1, <1>2 DEF Stands
  <2> QED BY <2>1, StandsIsPrefix DEF Comparable
<1>3. CASE Len(t) <= Len(s)
  <2>1. Stands(t, 0, s) BY <1>1, <1>3 DEF Stands
  <2> QED BY <2>1, StandsIsPrefix DEF Comparable
<1> QED BY <1>1, <1>2, <1>3

\* The types, the roles and the one log, from the beginning on.
LEMMA OneLogInv ==
  ASSUME NEW l \in Server, OneStands(l)
  PROVE  /\ Init => TypeOK /\ RoleInv(l) /\ LogInv(l)
         /\ TypeOK /\ RoleInv(l) /\ LogInv(l) /\ [Next]_vars =>
              (TypeOK /\ RoleInv(l) /\ LogInv(l))'
BY TypeInit, RoleInit, LogInit, TypeStep, RoleStep, LogStep

\* While one server only ever stands, logs never diverge, whatever
\* AppendEntries are lost, overtaken, repeated or served late, in every
\* execution: each log is the beginning of that server's.
THEOREM LogsNeverDiverge ==
  ASSUME NEW l \in Server, OneStands(l)
  PROVE  Spec => []LogsAgree
<1>1. TypeOK /\ LogInv(l) => LogsAgree
  BY PartsAgree DEF LogInv, LogsAgree, TypeOK, ServerTypeOK
<1> QED BY <1>1, OneLogInv, PTL DEF Spec

\* Nor does any server lose an entry: at the first conflict of a merge, and only
\* there, the log is cut, and there is none.
THEOREM NoEntryIsLost ==
  ASSUME NEW l \in Server, OneStands(l)
  PROVE  Spec => LogsOnlyGrow
<1>1. TypeOK /\ RoleInv(l) /\ LogInv(l) /\ [Next]_vars
        => [\A i \in Server : IsPrefix(entries[i], entries'[i])]_vars
  <2> SUFFICES ASSUME TypeOK, RoleInv(l), LogInv(l), [Next]_vars, NEW i \in Server
               PROVE  IsPrefix(entries[i], entries'[i])
    OBVIOUS
  <2>1. entries[i] \in Seq(Entry) /\ entries'[i] \in Seq(Entry)
    BY TypeStep DEF TypeOK, ServerTypeOK
  <2>2. Stands(entries[i], 0, entries'[i]) BY LogStep
  <2> QED BY <2>1, <2>2, StandsIsPrefix
<1> QED BY <1>1, OneLogInv, PTL DEF Spec, LogsOnlyGrow

-----------------------------------------------------------------------------
(***************************************************************************)
(* What l believes replicated: of all calls that were ever made to one       *)
(* follower at most one is still awaited, and nextIdx is what it was made    *)
(* with.                                                                     *)
(***************************************************************************)
OneAwaited ==
  /\ \A m, n \in appendReqs : m.live /\ n.live /\ m.to = n.to => m = n
  /\ \A r, s \in appendReplies : r.to = s.to => r = s
  /\ \A m \in appendReqs, r \in appendReplies : m.live => m.to # r.to

MatchInv(l) ==
  /\ OneAwaited
  /\ \A m \in appendReqs : m.live => nextIdx[l][m.to] = m.prevLogIdx + 1
  /\ \A r \in appendReplies :
       r.ok => nextIdx[l][r.to] + r.sent <= Len(entries[r.to]) + 1
  /\ \A j \in Server : matchIdx[l][j] <= Len(entries[j])

\* Where l takes no reply and makes no call.
LEMMA MatchKept ==
  ASSUME TypeOK, TypeOK', NEW l \in Server, MatchInv(l),
         nextIdx'[l] = nextIdx[l], matchIdx'[l] = matchIdx[l],
         \A i \in Server : Len(entries[i]) <= Len(entries'[i]),
         \A m \in appendReqs' : m.live => m \in appendReqs,
         appendReplies' \subseteq appendReplies
  PROVE  MatchInv(l)'
<1>1. OneAwaited' BY DEF MatchInv, OneAwaited
<1>2. \A i \in Server : Len(entries[i]) \in Nat /\ Len(entries'[i]) \in Nat
  BY LenProperties DEF TypeOK, ServerTypeOK
<1>3. ASSUME NEW r \in appendReplies', r.ok
      PROVE  nextIdx'[l][r.to] + r.sent <= Len(entries'[r.to]) + 1
  <2>1. r.to \in Server /\ r.sent \in Nat BY DEF TypeOK, AppendReply
  <2>2. nextIdx[l][r.to] \in Nat BY <2>1 DEF TypeOK
  <2>3. nextIdx[l][r.to] + r.sent <= Len(entries[r.to]) + 1 BY <1>3 DEF MatchInv
  <2>4. Len(entries[r.to]) \in Nat /\ Len(entries'[r.to]) \in Nat BY <1>2, <2>1
  <2>5. Len(entries[r.to]) <= Len(entries'[r.to]) BY <2>1
  <2>6. nextIdx'[l][r.to] = nextIdx[l][r.to] OBVIOUS
  <2> QED BY <2>1, <2>2, <2>3, <2>4, <2>5, <2>6
<1>4. ASSUME NEW j \in Server PROVE matchIdx'[l][j] <= Len(entries'[j])
  <2>1. matchIdx[l][j] \in Nat /\ matchIdx[l][j] <= Len(entries[j])
    BY DEF TypeOK, MatchInv
  <2> QED BY <1>2, <2>1
<1> QED BY <1>1, <1>3, <1>4 DEF MatchInv

\* l forgets its followers, and awaits nothing.
LEMMA MatchForgotten ==
  ASSUME TypeOK, TypeOK', NEW l \in Server, RoleInv(l),
         appendReqs' \in Abandon(appendReqs, LiveCalls(appendReqs, l)),
         appendReplies' = appendReplies \ CallsOf(appendReplies, l),
         matchIdx' = [matchIdx EXCEPT ![l] = [j \in Server |-> 0]]
  PROVE  MatchInv(l)'
<1>1. ASSUME NEW m \in appendReqs', m.live PROVE FALSE
  <2>1. LiveCalls(appendReqs, l) \in SUBSET appendReqs BY DEF LiveCalls
  <2>2. appendReqs \in SUBSET AppendEntriesMessage BY DEF TypeOK
  <2>3. m \in appendReqs \ LiveCalls(appendReqs, l)
    BY <1>1, <2>1, <2>2, LeftAppends
  <2> QED BY <1>1, <2>3 DEF LiveCalls, RoleInv, CallsAreOf
<1>2. appendReplies' = {} BY DEF CallsOf, RoleInv, CallsAreOf
<1>3. ASSUME NEW j \in Server PROVE matchIdx'[l][j] <= Len(entries'[j])
  <2>1. Len(entries'[j]) \in Nat BY LenProperties DEF TypeOK, ServerTypeOK
  <2>2. matchIdx'[l][j] = 0 BY DEF TypeOK
  <2> QED BY <2>1, <2>2
<1> QED BY <1>1, <1>2, <1>3 DEF MatchInv, OneAwaited

\* A new call takes the place of the one before.
LEMMA MatchSent ==
  ASSUME TypeOK, TypeOK', NEW l \in Server, RoleInv(l), MatchInv(l),
         NEW j \in Server, SendAppendEntries(l, j)
  PROVE  MatchInv(l)'
<1> DEFINE gone == {m \in LiveCalls(appendReqs, l) : m.to = j}
           a == AppendRequest(l, j)
<1>1. PICK rest \in Abandon(appendReqs, gone) : appendReqs' = rest \cup {a}
  BY DEF SendAppendEntries
<1>2. gone \in SUBSET appendReqs BY DEF LiveCalls
<1>3. appendReqs \in SUBSET AppendEntriesMessage BY DEF TypeOK
<1>4. ASSUME NEW m \in rest, m.live PROVE m \in appendReqs /\ m.to # j
  <2>1. m \in appendReqs \ gone BY <1>2, <1>3, <1>4, LeftAppends
  <2> QED BY <1>4, <2>1 DEF LiveCalls, RoleInv, CallsAreOf
<1>5. a.to = j /\ nextIdx[l][j] = a.prevLogIdx + 1
  <2>1. nextIdx[l][j] \in Nat BY DEF TypeOK
  <2> QED BY <2>1 DEF AppendRequest
<1>6. /\ nextIdx' = nextIdx /\ matchIdx' = matchIdx /\ entries' = entries
      /\ appendReplies' \subseteq appendReplies
      /\ \A r \in appendReplies' : r.to # j
  BY DEF SendAppendEntries, leaderVars, serverVars, logVars, RoleInv, CallsAreOf
<1> HIDE DEF a, gone
<1>7. OneAwaited' BY <1>1, <1>4, <1>5, <1>6 DEF MatchInv, OneAwaited
<1>8. ASSUME NEW m \in appendReqs', m.live
      PROVE  nextIdx'[l][m.to] = m.prevLogIdx + 1
  BY <1>1, <1>4, <1>5, <1>6, <1>8 DEF MatchInv
<1> QED BY <1>6, <1>7, <1>8 DEF MatchInv

\* A follower that has accepted a call has what it carried.
LEMMA MatchServed ==
  ASSUME TypeOK, TypeOK', NEW l \in Server, RoleInv(l), LogInv(l), MatchInv(l),
         NEW m \in appendReqs, ServeAppendEntries(m)
  PROVE  MatchInv(l)'
<1> DEFINE a == AppendAnswer(m.to, m)
<1>1. /\ m.to \in Server /\ m.prevLogIdx \in Nat /\ m.logEntries \in Seq(Entry)
      /\ Len(m.logEntries) \in Nat /\ Len(entries'[m.to]) \in Nat
  BY LenProperties DEF TypeOK, ServerTypeOK, AppendEntriesMessage
<1>2. /\ nextIdx' = nextIdx /\ matchIdx' = matchIdx
      /\ appendReqs' = appendReqs \ {m}
      /\ appendReplies' = IF m.live THEN appendReplies \cup {a} ELSE appendReplies
  BY DEF ServeAppendEntries, leaderVars
<1>3. a.to = m.to /\ a.sent = Len(m.logEntries) /\ a.ok = Accepts(m.to, m)
  BY DEF AppendAnswer
<1> HIDE DEF a
<1>4. /\ \A i \in Server : Stands(entries[i], 0, entries'[i])
      /\ Accepts(m.to, m) => m.prevLogIdx + Len(m.logEntries) <= Len(entries'[m.to])
  BY LogServed
<1>5. \A i \in Server : Len(entries[i]) \in Nat /\ Len(entries'[i]) \in Nat
  BY LenProperties DEF TypeOK, ServerTypeOK
<1>6. \A i \in Server : Len(entries[i]) <= Len(entries'[i])
  BY <1>4, <1>5 DEF Stands
<1>7. OneAwaited' BY <1>2, <1>3 DEF MatchInv, OneAwaited
<1>8. ASSUME NEW r \in appendReplies', r.ok
      PROVE  nextIdx'[l][r.to] + r.sent <= Len(entries'[r.to]) + 1
  <2>1. CASE r \in appendReplies
    <3>1. r.to \in Server /\ r.sent \in Nat BY <2>1 DEF TypeOK, AppendReply
    <3>2. nextIdx[l][r.to] \in Nat BY <3>1 DEF TypeOK
    <3>3. nextIdx[l][r.to] + r.sent <= Len(entries[r.to]) + 1
      BY <1>8, <2>1 DEF MatchInv
    <3> QED BY <1>2, <1>5, <1>6, <3>1, <3>2, <3>3
  <2>2. CASE r = a /\ m.live
    <3>1. nextIdx[l][m.to] = m.prevLogIdx + 1 BY <2>2 DEF MatchInv
    <3>2. r.to = m.to /\ r.sent = Len(m.logEntries) /\ Accepts(m.to, m)
      BY <1>3, <1>8, <2>2
    <3>3. m.prevLogIdx + Len(m.logEntries) <= Len(entries'[m.to]) BY <1>4, <3>2
    <3>4. nextIdx'[l][r.to] = m.prevLogIdx + 1 BY <1>2, <3>1, <3>2
    <3>5. m.prevLogIdx + 1 + Len(m.logEntries) <= Len(entries'[m.to]) + 1
      BY <1>1, <3>3
    <3> QED BY <3>2, <3>4, <3>5
  <2> QED BY <1>2, <2>1, <2>2
<1>9. ASSUME NEW j \in Server PROVE matchIdx'[l][j] <= Len(entries'[j])
  <2>1. matchIdx[l][j] \in Nat /\ matchIdx[l][j] <= Len(entries[j])
    BY DEF TypeOK, MatchInv
  <2> QED BY <1>2, <1>5, <1>6, <2>1
<1> QED BY <1>2, <1>7, <1>8, <1>9 DEF MatchInv

\* The awaited reply moves nextIdx and matchIdx, and no other call is open.
LEMMA MatchTaken ==
  ASSUME TypeOK, TypeOK', NEW l \in Server, RoleInv(l), MatchInv(l),
         NEW r \in appendReplies, TakeAppendSuccess(r) \/ TakeAppendRejection(r)
  PROVE  MatchInv(l)'
<1> DEFINE j == r.to
<1>1. r.from = l /\ j \in Server /\ r.sent \in Nat /\ Len(entries[j]) \in Nat
  BY LenProperties DEF RoleInv, CallsAreOf, TypeOK, ServerTypeOK, AppendReply
<1>2. /\ entries' = entries /\ appendReqs' = appendReqs
      /\ appendReplies' = appendReplies \ {r}
  BY DEF TakeAppendSuccess, TakeAppendRejection, serverVars, logVars
<1>3. \A k \in Server \ {j} :
        nextIdx'[l][k] = nextIdx[l][k] /\ matchIdx'[l][k] = matchIdx[l][k]
  <2>1. PICK n : nextIdx' = [nextIdx EXCEPT ![l][j] = n]
    BY <1>1 DEF TakeAppendSuccess, TakeAppendRejection
  <2>2. PICK q : matchIdx' = matchIdx \/ matchIdx' = [matchIdx EXCEPT ![l][j] = q]
    BY <1>1 DEF TakeAppendSuccess, TakeAppendRejection
  <2> HIDE DEF j
  <2>3. \A k \in Server \ {j} : nextIdx'[l][k] = nextIdx[l][k]
    BY <1>1, <2>1 DEF TypeOK
  <2>4. \A k \in Server \ {j} : matchIdx'[l][k] = matchIdx[l][k]
    <3>1. CASE matchIdx' = matchIdx BY <3>1
    <3>2. CASE matchIdx' = [matchIdx EXCEPT ![l][j] = q] BY <1>1, <3>2 DEF TypeOK
    <3> QED BY <2>2, <3>1, <3>2
  <2> QED BY <2>3, <2>4
<1>4. /\ \A m \in appendReqs' : m.live => m.to \in Server \ {j}
      /\ \A s \in appendReplies' : s.to \in Server \ {j}
  BY <1>2 DEF MatchInv, OneAwaited, TypeOK, AppendEntriesMessage, AppendReply
<1>5. matchIdx'[l][j] <= Len(entries[j])
  <2>1. CASE TakeAppendSuccess(r)
    <3>1. matchIdx'[l][j] = nextIdx[l][j] + r.sent - 1
      BY <1>1, <2>1 DEF TakeAppendSuccess, MatchAfter, TypeOK
    <3>2. nextIdx[l][j] + r.sent <= Len(entries[j]) + 1
      BY <2>1 DEF TakeAppendSuccess, MatchInv
    <3>3. nextIdx[l][j] \in Nat BY <1>1 DEF TypeOK
    <3> QED BY <1>1, <3>1, <3>2, <3>3
  <2>2. CASE TakeAppendRejection(r)
    BY <1>1, <2>2 DEF TakeAppendRejection, MatchInv
  <2> QED BY <2>1, <2>2
<1> HIDE DEF j
<1>6. OneAwaited' BY <1>2 DEF MatchInv, OneAwaited
<1> QED BY <1>2, <1>3, <1>4, <1>5, <1>6 DEF MatchInv

\* Every step keeps what l believes true.
LEMMA MatchStep ==
  ASSUME TypeOK, TypeOK', NEW l \in Server, RoleInv(l), LogInv(l), MatchInv(l),
         [Next]_vars
  PROVE  MatchInv(l)'
<1> USE DEF serverVars, logVars
<1>1. \A i \in Server : Len(entries[i]) <= Len(entries'[i])
  <2>1. \A i \in Server : Stands(entries[i], 0, entries'[i]) BY LogStep
  <2>2. \A i \in Server : Len(entries[i]) \in Nat
    BY LenProperties DEF TypeOK, ServerTypeOK
  <2> QED BY <2>1, <2>2 DEF Stands
<1>2. ASSUME NEW i \in Server, Abort(i) PROVE MatchInv(l)'
  <2>1. CASE i = l BY <1>2, <2>1, MatchForgotten DEF Abort
  <2>2. CASE i # l
    <3>1. nextIdx'[l] = nextIdx[l] /\ matchIdx'[l] = matchIdx[l]
      BY <1>2, <2>2 DEF Abort, TypeOK
    <3>2. LiveCalls(appendReqs, i) \in SUBSET appendReqs BY DEF LiveCalls
    <3>3. appendReqs \in SUBSET AppendEntriesMessage BY DEF TypeOK
    <3>4. appendReqs' \in Abandon(appendReqs, LiveCalls(appendReqs, i))
      BY <1>2 DEF Abort
    <3>5. \A m \in appendReqs' : m.live => m \in appendReqs
      BY <3>2, <3>3, <3>4, LeftAppends
    <3>6. appendReplies' \subseteq appendReplies BY <1>2 DEF Abort
    <3> QED BY <1>1, <3>1, <3>5, <3>6, MatchKept
  <2> QED BY <2>1, <2>2
<1>3. ASSUME NEW i \in Server, Transform(i) PROVE MatchInv(l)'
  <2>1. PICK target \in Identity : Leave(i, target)
    BY <1>3 DEF Transform, BecomeDown, BecomeFollower, BecomeLeader, BecomeCandidate,
                LeaveQuietly, Identity
  <2>2. CASE i = l BY <2>1, <2>2, MatchForgotten DEF Leave
  <2>3. CASE i # l
    <3>1. nextIdx'[l] = nextIdx[l] /\ matchIdx'[l] = matchIdx[l]
      BY <2>1, <2>3 DEF Leave, TypeOK
    <3>2. LiveCalls(appendReqs, i) \in SUBSET appendReqs BY DEF LiveCalls
    <3>3. appendReqs \in SUBSET AppendEntriesMessage BY DEF TypeOK
    <3>4. appendReqs' \in Abandon(appendReqs, LiveCalls(appendReqs, i))
      BY <2>1 DEF Leave
    <3>5. \A m \in appendReqs' : m.live => m \in appendReqs
      BY <3>2, <3>3, <3>4, LeftAppends
    <3>6. appendReplies' \subseteq appendReplies BY <2>1 DEF Leave
    <3> QED BY <1>1, <3>1, <3>5, <3>6, MatchKept
  <2> QED BY <2>2, <2>3
<1>4. ASSUME NEW i \in Server, NEW j \in Server,
             SendAppendEntries(i, j) \/ SendAppendEntriesThrows(i, j)
      PROVE  MatchInv(l)'
  <2>1. CASE SendAppendEntries(i, j)
    <3>1. i = l BY <2>1 DEF SendAppendEntries, RoleInv, Follows
    <3> QED BY <2>1, <3>1, MatchSent
  <2>2. CASE SendAppendEntriesThrows(i, j)
    BY <1>2, <2>2 DEF SendAppendEntriesThrows
  <2> QED BY <1>4, <2>1, <2>2
<1>5. ASSUME NEW m \in appendReqs, ServeAppendEntries(m) PROVE MatchInv(l)'
  BY <1>5, MatchServed
<1>6. ASSUME NEW r \in appendReplies, TakeAppendReply(r) PROVE MatchInv(l)'
  <2>1. r.from \in Server BY DEF TypeOK, AppendReply
  <2>2. CASE TakeAppendSuccess(r) \/ TakeAppendRejection(r)
    BY <2>2, MatchTaken
  <2>3. CASE TakeAppendSuccessCrashes(r)
    BY <1>2, <2>1, <2>3 DEF TakeAppendSuccessCrashes
  <2>4. CASE TakeAppendGreaterTerm(r)
    <3>1. /\ nextIdx' = nextIdx /\ matchIdx' = matchIdx
          /\ appendReqs' = appendReqs /\ appendReplies' \subseteq appendReplies
      BY <2>4 DEF TakeAppendGreaterTerm, leaderVars
    <3> QED BY <1>1, <3>1, MatchKept
  <2> QED BY <1>6, <2>2, <2>3, <2>4 DEF TakeAppendReply
<1>7. ASSUME \/ \E i \in Server : \/ Expires(i) \/ NotifyTimeout(i)
                                \/ AddLogState(i) \/ Stop(i) \/ Stopped(i)
             \/ \E m \in voteReqs : ServeRequestVote(m)
             \/ \E r \in voteReplies : TakeVoteReply(r)
             \/ \E i \in Server, req \in Request : AddLog(i, req)
             \/ UNCHANGED vars
      PROVE  MatchInv(l)'
  <2>1. /\ nextIdx' = nextIdx /\ matchIdx' = matchIdx
        /\ appendReqs' = appendReqs /\ appendReplies' = appendReplies
    BY <1>7 DEF Expires, NotifyTimeout, AddLogState, Stop, Stopped, ServeRequestVote,
                TakeVoteReply, AddLog, leaderVars, appendCalls, vars
  <2> QED BY <1>1, <2>1, MatchKept
<1> QED BY <1>3, <1>4, <1>5, <1>6, <1>7 DEF Next

\* What a leader believes replicated is replicated, while one server only ever
\* stands: the follower's log holds that many entries, and they are the leader's,
\* although of the calls it gave up any may still be served.
THEOREM BeliefsAreTrue ==
  ASSUME NEW l \in Server, OneStands(l)
  PROVE  Spec => []MatchIdxSound
<1>1. Init => MatchInv(l)
  BY DEF Init, InitServer, MatchInv, OneAwaited
<1>2. TypeOK /\ RoleInv(l) /\ LogInv(l) /\ MatchInv(l) /\ [Next]_vars => MatchInv(l)'
  BY TypeStep, MatchStep
<1>3. TypeOK /\ RoleInv(l) /\ LogInv(l) /\ MatchInv(l) => MatchIdxSound
  <2> SUFFICES ASSUME TypeOK, RoleInv(l), LogInv(l), MatchInv(l),
                      NEW i \in Server, NEW j \in Server, identity[i] = "Leader", i # j
               PROVE  /\ matchIdx[i][j] <= Len(entries[i])
                      /\ matchIdx[i][j] <= Len(entries[j])
                      /\ \A k \in 1..matchIdx[i][j] : entries[i][k] = entries[j][k]
    BY DEF MatchIdxSound
  <2>1. i = l BY DEF RoleInv, Follows
  <2>2. matchIdx[l][j] \in Nat /\ Len(entries[l]) \in Nat /\ Len(entries[j]) \in Nat
    BY LenProperties DEF TypeOK, ServerTypeOK
  <2>3. matchIdx[l][j] <= Len(entries[j]) BY DEF MatchInv
  <2>4. Stands(entries[j], 0, entries[l]) BY DEF LogInv
  <2> QED BY <2>1, <2>2, <2>3, <2>4 DEF Stands
<1> QED BY <1>1, <1>2, <1>3, OneLogInv, PTL DEF Spec

-----------------------------------------------------------------------------
(***************************************************************************)
(* No term exceeds that of l: nobody else raises one.                       *)
(***************************************************************************)
TermInv(l) ==
  /\ \A i \in Server : currentTerm[i] <= currentTerm[l]
  /\ \A m \in voteReqs : m.term <= currentTerm[l]
  /\ \A m \in appendReqs : m.term <= currentTerm[l]
  /\ \A r \in appendReplies : r.term <= currentTerm[l]

\* Where no term changes, and no message with another is sent.
LEMMA TermsKept ==
  ASSUME NEW l \in Server, TermInv(l), currentTerm' = currentTerm,
         \A m \in voteReqs' : \E n \in voteReqs : m.term = n.term,
         \A m \in appendReqs' :
           m.term = currentTerm[l] \/ \E n \in appendReqs : m.term = n.term,
         appendReplies' \subseteq appendReplies,
         currentTerm[l] \in Nat
  PROVE  TermInv(l)'
BY DEF TermInv

\* A transformation of i leaves messages that were there.
LEMMA TermsLeft ==
  ASSUME TypeOK, NEW i \in Server, NEW target, Leave(i, target)
  PROVE  /\ \A m \in appendReqs' : \E n \in appendReqs : m.term = n.term
         /\ appendReplies' \subseteq appendReplies
<1>1. LiveCalls(appendReqs, i) \in SUBSET appendReqs BY DEF LiveCalls
<1>2. appendReqs \in SUBSET AppendEntriesMessage BY DEF TypeOK
<1>3. appendReqs' \in Abandon(appendReqs, LiveCalls(appendReqs, i)) BY DEF Leave
<1>4. \A m \in appendReqs' : \E n \in appendReqs : m.term = n.term
  BY <1>1, <1>2, <1>3, LeftAppends
<1> QED BY <1>4 DEF Leave

\* What a vote request leaves behind when its call is given up.
LEMMA TermsLeftVotes ==
  ASSUME TypeOK, NEW i \in Server, NEW rest \in Abandon(voteReqs, LiveCalls(voteReqs, i))
  PROVE  \A m \in rest : \E n \in voteReqs : m.term = n.term
<1>1. LiveCalls(voteReqs, i) \in SUBSET voteReqs BY DEF LiveCalls
<1>2. voteReqs \in SUBSET RequestVoteMessage BY DEF TypeOK
<1> QED BY <1>1, <1>2, LeftVotes

\* A candidacy of l raises the greatest term.
LEMMA TermsCandidate ==
  ASSUME TypeOK, NEW l \in Server, TermInv(l), BecomeCandidate(l)
  PROVE  TermInv(l)'
<1> DEFINE t == currentTerm[l] + 1
<1>1. Leave(l, "Candidate") /\ currentTerm' = [currentTerm EXCEPT ![l] = t]
  BY DEF BecomeCandidate
<1>2. /\ \A i \in Server : currentTerm[i] \in Nat
      /\ currentTerm'[l] = t
      /\ \A i \in Server \ {l} : currentTerm'[i] = currentTerm[i]
  BY <1>1 DEF TypeOK, ServerTypeOK
<1>3. PICK rest \in Abandon(voteReqs, LiveCalls(voteReqs, l)) :
        voteReqs' = rest \cup {VoteRequest(l, j, t) : j \in Server \ {l}}
  BY DEF BecomeCandidate
<1>4. \A m \in voteReqs : m.term \in Nat /\ m.term <= currentTerm[l]
  BY DEF TypeOK, RequestVoteMessage, TermInv
<1>5. \A m \in appendReqs : m.term \in Nat /\ m.term <= currentTerm[l]
  BY DEF TypeOK, AppendEntriesMessage, TermInv
<1>6. \A r \in appendReplies : r.term \in Nat /\ r.term <= currentTerm[l]
  BY DEF TypeOK, AppendReply, TermInv
<1>7. ASSUME NEW m \in voteReqs' PROVE m.term <= currentTerm'[l]
  <2>1. CASE m \in rest
    <3>1. PICK n \in voteReqs : m.term = n.term BY <2>1, TermsLeftVotes
    <3> QED BY <1>2, <1>4, <3>1
  <2>2. CASE m \notin rest
    <3>1. m.term = t BY <1>3, <2>2 DEF VoteRequest
    <3> QED BY <1>2, <3>1
  <2> QED BY <2>1, <2>2
<1>8. ASSUME NEW m \in appendReqs' PROVE m.term <= currentTerm'[l]
  <2>1. PICK n \in appendReqs : m.term = n.term BY <1>1, TermsLeft
  <2> QED BY <1>2, <1>5, <2>1
<1>9. ASSUME NEW r \in appendReplies' PROVE r.term <= currentTerm'[l]
  <2>1. r \in appendReplies BY <1>1, TermsLeft
  <2> QED BY <1>2, <1>6, <2>1
<1>10. \A i \in Server : currentTerm'[i] <= currentTerm'[l]
  BY <1>2 DEF TermInv
<1> QED BY <1>7, <1>8, <1>9, <1>10 DEF TermInv

\* A handler takes over the term of a message, at most, and answers with it.
LEMMA TermsServed ==
  ASSUME TypeOK, NEW l \in Server, RoleInv(l), TermInv(l),
         \/ \E m \in voteReqs : ServeRequestVote(m)
         \/ \E m \in appendReqs : ServeAppendEntries(m)
  PROVE  TermInv(l)' /\ currentTerm'[l] = currentTerm[l]
<1> USE DEF serverVars, triggerVars, voteCalls, appendCalls
<1>1. \A i \in Server : currentTerm[i] \in Nat BY DEF TypeOK, ServerTypeOK
<1>2. ASSUME NEW m \in voteReqs, ServeRequestVote(m)
      PROVE  TermInv(l)' /\ currentTerm'[l] = currentTerm[l]
  <2>1. m.to \in Server \ {l} /\ m.term \in Nat /\ m.term <= currentTerm[l]
    BY DEF RoleInv, CallsAreOf, TypeOK, RequestVoteMessage, TermInv
  <2>2. \/ currentTerm' = currentTerm
        \/ currentTerm' = [currentTerm EXCEPT ![m.to] = TermAfterVote(m.to, m)]
    BY <1>2 DEF ServeRequestVote, RPCRequestVote
  <2>3. TermAfterVote(m.to, m) \in {m.term, currentTerm[m.to]}
    BY DEF TermAfterVote, CheckedTerm
  <2>4. /\ \A i \in Server : currentTerm'[i] <= currentTerm[l]
        /\ currentTerm'[l] = currentTerm[l]
    BY <1>1, <2>1, <2>2, <2>3 DEF TermInv, TypeOK, ServerTypeOK
  <2>5. /\ voteReqs' \subseteq voteReqs /\ appendReqs' = appendReqs
        /\ appendReplies' = appendReplies
    BY <1>2 DEF ServeRequestVote
  <2> QED BY <2>4, <2>5 DEF TermInv
<1>3. ASSUME NEW m \in appendReqs, ServeAppendEntries(m)
      PROVE  TermInv(l)' /\ currentTerm'[l] = currentTerm[l]
  <2>1. m.to \in Server \ {l} /\ m.term \in Nat /\ m.term <= currentTerm[l]
    BY DEF RoleInv, CallsAreOf, TypeOK, AppendEntriesMessage, TermInv
  <2>2. \/ currentTerm' = currentTerm
        \/ currentTerm' = [currentTerm EXCEPT ![m.to] = CheckedTerm(m.to, m)]
    BY <1>3 DEF ServeAppendEntries, RPCAppendEntries
  <2>3. CheckedTerm(m.to, m) \in {m.term, currentTerm[m.to]}
    BY DEF CheckedTerm
  <2>4. /\ \A i \in Server : currentTerm'[i] <= currentTerm[l]
        /\ currentTerm'[l] = currentTerm[l]
    BY <1>1, <2>1, <2>2, <2>3 DEF TermInv, TypeOK, ServerTypeOK
  <2>5. AppendAnswer(m.to, m).term <= currentTerm[l]
    <3>1. AppendAnswer(m.to, m).term \in {0, m.term, currentTerm[m.to]}
      BY <2>3 DEF AppendAnswer
    <3> QED BY <1>1, <2>1, <3>1 DEF TermInv
  <2>6. /\ voteReqs' = voteReqs /\ appendReqs' \subseteq appendReqs
        /\ appendReplies' \subseteq appendReplies \cup {AppendAnswer(m.to, m)}
    BY <1>3 DEF ServeAppendEntries
  <2> QED BY <2>4, <2>5, <2>6 DEF TermInv
<1> QED BY <1>2, <1>3

\* Requests and replies left behind by a call that i makes or gives up.
LEMMA TermsLeftAppends ==
  ASSUME TypeOK, NEW gone \in SUBSET appendReqs, NEW rest \in Abandon(appendReqs, gone)
  PROVE  \A m \in rest : \E n \in appendReqs : m.term = n.term
<1>1. appendReqs \in SUBSET AppendEntriesMessage BY DEF TypeOK
<1> QED BY <1>1, LeftAppends

\* Every step keeps the term of l the greatest; its own candidacy alone changes it.
LEMMA TermStep ==
  ASSUME TypeOK, NEW l \in Server, RoleInv(l), TermInv(l), [Next]_vars
  PROVE  /\ TermInv(l)'
         /\ BecomeCandidate(l) \/ currentTerm'[l] = currentTerm[l]
         /\ \A r \in appendReplies : ~TakeAppendGreaterTerm(r)
<1> USE DEF serverVars, voteCalls, appendCalls
<1>1. \A i \in Server : currentTerm[i] \in Nat BY DEF TypeOK, ServerTypeOK
<1>2. ASSUME NEW i \in Server, Abort(i)
      PROVE  TermInv(l)' /\ currentTerm' = currentTerm
  <2>1. appendReqs' \in Abandon(appendReqs, LiveCalls(appendReqs, i)) BY <1>2 DEF Abort
  <2>2. LiveCalls(appendReqs, i) \in SUBSET appendReqs BY DEF LiveCalls
  <2>3. \A m \in appendReqs' : \E n \in appendReqs : m.term = n.term
    BY <2>1, <2>2, TermsLeftAppends
  <2>4. /\ currentTerm' = currentTerm /\ voteReqs' = voteReqs
        /\ appendReplies' \subseteq appendReplies
    BY <1>2 DEF Abort
  <2> QED BY <1>1, <2>3, <2>4, TermsKept
<1>3. ASSUME NEW i \in Server, LeaveQuietly(i, "Down") \/ LeaveQuietly(i, "Follower")
                                 \/ LeaveQuietly(i, "Leader")
      PROVE  TermInv(l)' /\ currentTerm' = currentTerm
  <2>1. PICK target : LeaveQuietly(i, target) BY <1>3
  <2>2. Leave(i, target) /\ currentTerm' = currentTerm
        /\ voteReqs' \in Abandon(voteReqs, LiveCalls(voteReqs, i))
    BY <2>1 DEF LeaveQuietly
  <2>3. \A m \in voteReqs' : \E n \in voteReqs : m.term = n.term
    BY <2>2, TermsLeftVotes
  <2> QED BY <1>1, <2>2, <2>3, TermsLeft, TermsKept
<1>4. ASSUME NEW i \in Server, Transform(i)
      PROVE  TermInv(l)' /\ (BecomeCandidate(l) \/ currentTerm'[l] = currentTerm[l])
  <2>1. CASE BecomeCandidate(i)
    BY <2>1, RolesCandidate, TermsCandidate
  <2>2. CASE ~BecomeCandidate(i)
    BY <1>3, <1>4, <2>2 DEF Transform, BecomeDown, BecomeFollower, BecomeLeader
  <2> QED BY <2>1, <2>2
<1>5. ASSUME NEW i \in Server, NEW j \in Server, SendAppendEntries(i, j)
      PROVE  TermInv(l)' /\ currentTerm' = currentTerm
  <2> DEFINE gone == {m \in LiveCalls(appendReqs, i) : m.to = j}
  <2>1. i = l BY <1>5 DEF SendAppendEntries, RoleInv, Follows
  <2>2. PICK rest \in Abandon(appendReqs, gone) :
          appendReqs' = rest \cup {AppendRequest(i, j)}
    BY <1>5 DEF SendAppendEntries
  <2>3. gone \in SUBSET appendReqs BY DEF LiveCalls
  <2> HIDE DEF gone
  <2>4. \A m \in rest : \E n \in appendReqs : m.term = n.term
    BY <2>2, <2>3, TermsLeftAppends
  <2>5. AppendRequest(i, j).term = currentTerm[l] BY <2>1 DEF AppendRequest
  <2>6. /\ currentTerm' = currentTerm /\ voteReqs' = voteReqs
        /\ appendReplies' \subseteq appendReplies
    BY <1>5 DEF SendAppendEntries
  <2>7. \A m \in appendReqs' :
          m.term = currentTerm[l] \/ \E n \in appendReqs : m.term = n.term
    BY <2>2, <2>4, <2>5
  <2> QED BY <1>1, <2>6, <2>7, TermsKept
<1>6. \A r \in appendReplies : ~TakeAppendGreaterTerm(r)
  <2> SUFFICES ASSUME NEW r \in appendReplies, TakeAppendGreaterTerm(r) PROVE FALSE
    OBVIOUS
  <2>1. r.from = l /\ r.term \in Nat /\ r.term <= currentTerm[l]
    BY DEF RoleInv, CallsAreOf, TypeOK, AppendReply, TermInv
  <2>2. r.term > currentTerm[l] BY <2>1 DEF TakeAppendGreaterTerm
  <2> QED BY <1>1, <2>1, <2>2
<1>7. ASSUME NEW r \in appendReplies, TakeAppendReply(r)
      PROVE  TermInv(l)' /\ currentTerm' = currentTerm
  <2>1. r.from \in Server BY DEF TypeOK, AppendReply
  <2>2. CASE TakeAppendSuccessCrashes(r)
    BY <1>2, <2>1, <2>2 DEF TakeAppendSuccessCrashes
  <2>3. CASE TakeAppendSuccess(r) \/ TakeAppendRejection(r)
    <3>1. /\ currentTerm' = currentTerm /\ voteReqs' = voteReqs
          /\ appendReqs' = appendReqs /\ appendReplies' \subseteq appendReplies
      BY <2>3 DEF TakeAppendSuccess, TakeAppendRejection
    <3> QED BY <1>1, <3>1, TermsKept
  <2> QED BY <1>6, <1>7, <2>2, <2>3 DEF TakeAppendReply
<1>8. ASSUME \/ \E i \in Server : \/ Expires(i) \/ NotifyTimeout(i)
                                \/ AddLogState(i) \/ Stop(i) \/ Stopped(i)
             \/ \E r \in voteReplies : TakeVoteReply(r)
             \/ \E i \in Server, req \in Request : AddLog(i, req)
             \/ UNCHANGED vars
      PROVE  TermInv(l)' /\ currentTerm' = currentTerm
  <2>1. /\ currentTerm' = currentTerm /\ voteReqs' = voteReqs
        /\ appendReqs' = appendReqs /\ appendReplies' \subseteq appendReplies
    BY <1>8 DEF Expires, NotifyTimeout, AddLogState, Stop, Stopped, TakeVoteReply, AddLog,
                vars
  <2> QED BY <1>1, <2>1, TermsKept
<1>9. ASSUME NEW i \in Server, NEW j \in Server, SendAppendEntriesThrows(i, j)
      PROVE  TermInv(l)' /\ currentTerm' = currentTerm
  BY <1>2, <1>9 DEF SendAppendEntriesThrows
<1> QED
  BY <1>4, <1>5, <1>6, <1>7, <1>8, <1>9, TermsServed DEF Next

-----------------------------------------------------------------------------
(***************************************************************************)
(* The turns of l: while a transformation of l is queued, or l leads, none  *)
(* of its timeouts and votes triggers another.  So nothing but Stop ends    *)
(* the term of a leader that no other server ever challenges.               *)
(***************************************************************************)
NoTurn(q) == \A k \in 1..Len(q) : q[k].to = "Down"

OneTurn(q) ==
  \A k, n \in 1..Len(q) : q[k].to # "Down" /\ q[n].to # "Down" => k = n

\* Neither a timeout nor a vote of the current term is fresh.
Settled(l) ==
  timer[l] \/ ~NoTimeoutBegun(l) \/ currentTerm[l] > 0 => ~Fresh(l, currentTerm[l])

VotesOfTerm(l) ==
  /\ \A r \in voteReplies : r.sent = currentTerm[l] /\ currentTerm[l] > 0
  /\ \A m \in voteReqs : m.live => m.term = currentTerm[l] /\ currentTerm[l] > 0

TurnInv(l) ==
  /\ OneTurn(queue[l])
  /\ identity[l] = "Leader" => NoTurn(queue[l])
  /\ identity[l] = "Leader" \/ ~NoTurn(queue[l]) => Settled(l)
  /\ expiring[l] \subseteq {currentTerm[l]} /\ (NoTimeoutBegun(l) \/ ~timer[l])
  /\ VotesOfTerm(l)

\* A queue with one turn, once it is taken, ...
LEMMA TurnTaken ==
  ASSUME NEW q \in Seq(Event), q # <<>>, OneTurn(q)
  PROVE  /\ OneTurn(Tail(q))
         /\ NoTurn(q) => NoTurn(Tail(q))
         /\ Head(q).to # "Down" => NoTurn(Tail(q)) /\ ~NoTurn(q)
<1>1. Len(q) \in Nat \ {0} BY EmptySeq
<1>2. /\ Len(Tail(q)) = Len(q) - 1
      /\ \A k \in 1..Len(Tail(q)) : Tail(q)[k] = q[k + 1]
  BY HeadTailProperties
<1>3. Head(q) = q[1] BY <1>1
<1>4. OneTurn(Tail(q)) BY <1>1, <1>2 DEF OneTurn
<1>5. NoTurn(q) => NoTurn(Tail(q)) BY <1>1, <1>2 DEF NoTurn
<1>6. ASSUME Head(q).to # "Down" PROVE NoTurn(Tail(q)) /\ ~NoTurn(q)
  <2>1. ~NoTurn(q) BY <1>1, <1>3, <1>6 DEF NoTurn
  <2>2. ASSUME NEW k \in 1..Len(Tail(q)) PROVE Tail(q)[k].to = "Down"
    <3>1. k + 1 \in 1..Len(q) /\ 1 \in 1..Len(q) /\ k + 1 # 1 BY <1>1, <1>2
    <3> QED BY <1>2, <1>3, <1>6, <3>1 DEF OneTurn
  <2> QED BY <2>1, <2>2 DEF NoTurn
<1> QED BY <1>4, <1>5, <1>6

\* ... and with one more event.
LEMMA TurnAppended ==
  ASSUME NEW q \in Seq(Event), OneTurn(q), NEW e \in Event
  PROVE  /\ NoTurn(q) \/ e.to = "Down" => OneTurn(Append(q, e))
         /\ NoTurn(Append(q, e)) <=> NoTurn(q) /\ e.to = "Down"
<1>1. /\ Len(Append(q, e)) = Len(q) + 1 /\ Len(q) \in Nat
      /\ \A k \in 1..Len(q) : Append(q, e)[k] = q[k]
      /\ Append(q, e)[Len(q) + 1] = e
  BY AppendProperties, LenProperties
<1>2. \A k \in 1..(Len(q) + 1) : k \in 1..Len(q) \/ k = Len(q) + 1 BY <1>1
<1>3. 1..Len(q) \subseteq 1..(Len(q) + 1) /\ Len(q) + 1 \in 1..(Len(q) + 1) BY <1>1
<1>4. NoTurn(Append(q, e)) <=> NoTurn(q) /\ e.to = "Down"
  BY <1>1, <1>2, <1>3 DEF NoTurn
<1>5. ASSUME NoTurn(q) \/ e.to = "Down" PROVE OneTurn(Append(q, e))
  <2> SUFFICES ASSUME NEW k \in 1..(Len(q) + 1), NEW n \in 1..(Len(q) + 1),
                      Append(q, e)[k].to # "Down", Append(q, e)[n].to # "Down"
               PROVE  k = n
    BY <1>1 DEF OneTurn
  <2>1. CASE NoTurn(q)
    <3>1. k = Len(q) + 1 BY <1>1, <1>2, <2>1 DEF NoTurn
    <3>2. n = Len(q) + 1 BY <1>1, <1>2, <2>1 DEF NoTurn
    <3> QED BY <3>1, <3>2
  <2>2. CASE e.to = "Down"
    <3>1. k \in 1..Len(q) /\ n \in 1..Len(q) BY <1>1, <1>2, <2>2
    <3> QED BY <1>1, <3>1 DEF OneTurn
  <2> QED BY <1>5, <2>1, <2>2
<1> QED BY <1>4, <1>5

\* notify, by a timeout or a vote of the current term of l.
LEMMA TurnNotified ==
  ASSUME TypeOK, NEW l \in Server, TurnInv(l), NEW to \in {"Candidate", "Leader"},
         currentTerm[l] > 0 \/ ~NoTimeoutBegun(l),
         Notify(l, to, currentTerm[l]),
         identity'[l] = identity[l], currentTerm'[l] = currentTerm[l],
         timer'[l] = timer[l], expiring'[l] \subseteq expiring[l],
         currentTerm[l] > 0 \/ expiring'[l] = {}
  PROVE  /\ OneTurn(queue'[l])
         /\ identity'[l] = "Leader" => NoTurn(queue'[l])
         /\ identity'[l] = "Leader" \/ ~NoTurn(queue'[l]) => Settled(l)'
<1> DEFINE e == [to |-> to, term |-> currentTerm[l]]
<1>1. /\ queue[l] \in Seq(Event) /\ currentTerm[l] \in Nat /\ termTriggered[l] \in Nat
      /\ e \in Event /\ e.to # "Down"
  BY DEF TypeOK, ServerTypeOK, Event, Identity
<1>2. /\ queue'[l] = IF Fresh(l, currentTerm[l]) THEN Append(queue[l], e) ELSE queue[l]
      /\ termTriggered'[l] = IF Fresh(l, currentTerm[l]) THEN currentTerm[l]
                                                        ELSE termTriggered[l]
  BY DEF Notify, Notified, Triggered, TypeOK, ServerTypeOK
<1> HIDE DEF e
<1>3. CASE Fresh(l, currentTerm[l])
  <2>1. ~Settled(l) BY <1>3 DEF Settled
  <2>2. identity[l] # "Leader" /\ NoTurn(queue[l]) BY <2>1 DEF TurnInv
  <2>3. OneTurn(queue'[l]) BY <1>1, <1>2, <1>3, <2>2, TurnAppended DEF TurnInv
  <2>4. currentTerm[l] = 0 => ~timer'[l] /\ expiring'[l] = {} BY <1>1 DEF TurnInv
  <2>5. Settled(l)' BY <1>1, <1>2, <1>3, <2>4 DEF Settled, Fresh, NoTimeoutBegun
  <2> QED BY <2>2, <2>3, <2>5
<1>4. CASE ~Fresh(l, currentTerm[l])
  <2>1. queue'[l] = queue[l] /\ termTriggered'[l] = termTriggered[l] BY <1>2, <1>4
  <2>2. Fresh(l, currentTerm[l])' <=> Fresh(l, currentTerm[l]) BY <2>1 DEF Fresh
  <2>3. Settled(l)' BY <1>4, <2>2 DEF Settled
  <2> QED BY <2>1, <2>3 DEF TurnInv
<1> QED BY <1>3, <1>4

\* Where nothing of l changes that its turns depend on.
LEMMA TurnKept ==
  ASSUME NEW l \in Server, TurnInv(l),
         queue'[l] = queue[l], identity'[l] = identity[l],
         termTriggered'[l] = termTriggered[l], currentTerm'[l] = currentTerm[l],
         timer'[l] = timer[l], expiring'[l] = expiring[l],
         voteReplies' \subseteq voteReplies,
         \A m \in voteReqs' : m.live => m \in voteReqs
  PROVE  TurnInv(l)'
<1>1. Settled(l)' <=> Settled(l) BY DEF Settled, Fresh, NoTimeoutBegun
<1>2. VotesOfTerm(l)' BY DEF TurnInv, VotesOfTerm
<1> QED BY <1>1, <1>2 DEF TurnInv, NoTimeoutBegun

\* Votes that l no longer waits for, once it has left an identity.
LEMMA TurnLeft ==
  ASSUME TypeOK, NEW l \in Server, RoleInv(l), NEW target, Leave(l, target)
  PROVE  /\ voteReplies' = {}
         /\ \A rest \in Abandon(voteReqs, LiveCalls(voteReqs, l)) :
              \A m \in rest : ~m.live
         /\ queue[l] # <<>> /\ queue[l] \in Seq(Event) /\ Head(queue[l]).to = target
         /\ identity'[l] = target /\ expiring[l] = {}
<1>1. voteReplies' = {} BY DEF Leave, CallsOf, RoleInv, CallsAreOf
<1>2. LiveCalls(voteReqs, l) \in SUBSET voteReqs BY DEF LiveCalls
<1>3. voteReqs \in SUBSET RequestVoteMessage BY DEF TypeOK
<1>4. ASSUME NEW rest \in Abandon(voteReqs, LiveCalls(voteReqs, l)), NEW m \in rest,
             m.live
      PROVE  FALSE
  <2>1. m \in voteReqs \ LiveCalls(voteReqs, l) BY <1>2, <1>3, <1>4, LeftVotes
  <2> QED BY <1>4, <2>1 DEF LiveCalls, RoleInv, CallsAreOf
<1> QED BY <1>1, <1>4 DEF Leave, NoTimeoutBegun, TypeOK, ServerTypeOK

\* l takes a turn.
LEMMA TurnTransform ==
  ASSUME TypeOK, NEW l \in Server, RoleInv(l), TurnInv(l), Transform(l)
  PROVE  TurnInv(l)'
<1> DEFINE q == queue[l]
<1>1. OneTurn(q) BY DEF TurnInv
<1>2. ASSUME NEW target \in {"Down", "Follower", "Leader"}, LeaveQuietly(l, target),
             target # "Follower" => ~timer'[l]
      PROVE  TurnInv(l)'
  <2>1. Leave(l, target) BY <1>2 DEF LeaveQuietly
  <2>2. /\ q # <<>> /\ q \in Seq(Event) /\ Head(q).to = target
        /\ identity'[l] = target /\ expiring[l] = {}
        /\ voteReplies' = {}
    BY <2>1, TurnLeft
  <2>3. voteReqs' \in Abandon(voteReqs, LiveCalls(voteReqs, l))
    BY <1>2 DEF LeaveQuietly
  <2>4. \A m \in voteReqs' : ~m.live BY <2>1, <2>3, TurnLeft
  <2>5. /\ queue'[l] = Tail(q) /\ termTriggered'[l] = termTriggered[l]
        /\ currentTerm'[l] = currentTerm[l] /\ expiring'[l] = {}
    BY <1>2, <2>2 DEF LeaveQuietly, candidateVars, TypeOK, ServerTypeOK
  <2> HIDE DEF q
  <2>6. /\ OneTurn(Tail(q))
        /\ NoTurn(q) => NoTurn(Tail(q))
        /\ Head(q).to # "Down" => NoTurn(Tail(q)) /\ ~NoTurn(q)
    BY <1>1, <2>2, TurnTaken
  <2>7. ASSUME target = "Leader" \/ ~NoTurn(Tail(q)) PROVE Settled(l)'
    <3>1. ~NoTurn(q) /\ target # "Follower" BY <2>2, <2>6, <2>7
    <3>2. Settled(l) BY <3>1 DEF TurnInv, q
    <3> QED BY <1>2, <2>5, <3>1, <3>2 DEF Settled, Fresh, NoTimeoutBegun
  <2>8. VotesOfTerm(l)' BY <2>2, <2>4 DEF VotesOfTerm
  <2> QED BY <2>2, <2>5, <2>6, <2>7, <2>8 DEF TurnInv, NoTimeoutBegun
<1>3. CASE BecomeDown(l)
  <2>1. timer'[l] = FALSE BY <1>3 DEF BecomeDown, TypeOK, ServerTypeOK
  <2> QED BY <1>2, <1>3, <2>1 DEF BecomeDown
<1>4. CASE BecomeFollower(l) BY <1>2, <1>4 DEF BecomeFollower
<1>5. CASE BecomeLeader(l)
  <2>1. timer'[l] = FALSE BY <1>5 DEF BecomeLeader, TypeOK, ServerTypeOK
  <2> QED BY <1>2, <1>5, <2>1 DEF BecomeLeader
<1>6. CASE BecomeCandidate(l)
  <2> DEFINE t == currentTerm[l] + 1
             e == [to |-> "Leader", term |-> t]
  <2>1. Leave(l, "Candidate") BY <1>6 DEF BecomeCandidate
  <2>2. /\ q # <<>> /\ q \in Seq(Event) /\ Head(q).to = "Candidate"
        /\ identity'[l] = "Candidate" /\ voteReplies' = {} /\ expiring'[l] = {}
    BY <1>6, <2>1, TurnLeft DEF BecomeCandidate
  <2>3. /\ t \in Nat /\ t > 0 /\ termTriggered[l] \in Nat /\ currentTerm'[l] = t
    BY <1>6 DEF BecomeCandidate, TypeOK, ServerTypeOK
  <2>4. PICK rest \in Abandon(voteReqs, LiveCalls(voteReqs, l)) :
          voteReqs' = rest \cup {VoteRequest(l, j, t) : j \in Server \ {l}}
    BY <1>6 DEF BecomeCandidate
  <2>5. \A m \in rest : ~m.live BY <2>1, TurnLeft
  <2>6. \A m \in voteReqs' : m.live => m.term = t
    BY <2>4, <2>5 DEF VoteRequest
  <2>7. \/ queue'[l] = Tail(q)
        \/ /\ Fresh(l, t) /\ queue'[l] = Append(Tail(q), e)
           /\ termTriggered'[l] = t
        \/ ~Fresh(l, t) /\ queue'[l] = Tail(q)
    BY <1>6 DEF BecomeCandidate, Notified, Triggered, TypeOK, ServerTypeOK
  <2>8. e \in Event /\ e.to = "Leader" BY <2>3 DEF Event, Identity
  <2> HIDE DEF q, t, e
  <2>9. OneTurn(Tail(q)) /\ NoTurn(Tail(q)) /\ Tail(q) \in Seq(Event)
    BY <1>1, <2>2, TurnTaken, HeadTailProperties
  <2>10. VotesOfTerm(l)' BY <2>2, <2>3, <2>6 DEF VotesOfTerm
  <2>11. CASE queue'[l] = Tail(q) BY <2>2, <2>9, <2>10, <2>11 DEF TurnInv, NoTimeoutBegun
  <2>12. CASE queue'[l] = Append(Tail(q), e) /\ termTriggered'[l] = t
    <3>1. OneTurn(queue'[l]) BY <2>8, <2>9, <2>12, TurnAppended
    <3>2. Settled(l)' BY <2>3, <2>12 DEF Settled, Fresh
    <3> QED BY <2>2, <2>10, <3>1, <3>2 DEF TurnInv, NoTimeoutBegun
  <2> QED BY <2>7, <2>11, <2>12
<1> QED BY <1>3, <1>4, <1>5, <1>6 DEF Transform

\* A handler touches its own server alone.
LEMMA ServedElsewhere ==
  ASSUME TypeOK, NEW l \in Server, NEW i \in Server \ {l},
         \/ \E m \in voteReqs : m.to = i /\ ServeRequestVote(m)
         \/ \E m \in appendReqs : m.to = i /\ ServeAppendEntries(m)
  PROVE  /\ queue'[l] = queue[l] /\ identity'[l] = identity[l]
         /\ timer'[l] = timer[l] /\ termTriggered'[l] = termTriggered[l]
         /\ currentTerm'[l] = currentTerm[l] /\ expiring' = expiring
<1> USE DEF serverVars, triggerVars, candidateVars
<1>1. ASSUME NEW to, NEW term, Notify(i, to, term)
      PROVE  queue'[l] = queue[l] /\ termTriggered'[l] = termTriggered[l]
  BY <1>1 DEF Notify, Triggered, TypeOK, ServerTypeOK
<1>2. ASSUME NEW m \in voteReqs, m.to = i, ServeRequestVote(m)
      PROVE  /\ identity' = identity /\ expiring' = expiring
             /\ currentTerm' = currentTerm
                  \/ \E t : currentTerm' = [currentTerm EXCEPT ![i] = t]
             /\ timer' = timer \/ \E t : timer' = [timer EXCEPT ![i] = t]
             /\ (UNCHANGED triggerVars) \/ Notify(i, "Follower", m.term)
  BY <1>2 DEF ServeRequestVote, RPCRequestVote
<1>3. ASSUME NEW m \in appendReqs, m.to = i, ServeAppendEntries(m)
      PROVE  /\ identity' = identity /\ expiring' = expiring
             /\ currentTerm' = currentTerm
                  \/ \E t : currentTerm' = [currentTerm EXCEPT ![i] = t]
             /\ timer' = timer \/ \E t : timer' = [timer EXCEPT ![i] = t]
             /\ (UNCHANGED triggerVars) \/ Notify(i, "Follower", m.term)
  BY <1>3 DEF ServeAppendEntries, RPCAppendEntries
<1>4. PICK term : /\ identity' = identity /\ expiring' = expiring
                  /\ currentTerm' = currentTerm
                       \/ \E t : currentTerm' = [currentTerm EXCEPT ![i] = t]
                  /\ timer' = timer \/ \E t : timer' = [timer EXCEPT ![i] = t]
                  /\ (UNCHANGED triggerVars) \/ Notify(i, "Follower", term)
  BY <1>2, <1>3
<1>5. queue'[l] = queue[l] /\ termTriggered'[l] = termTriggered[l] BY <1>1, <1>4
<1>6. currentTerm'[l] = currentTerm[l] /\ timer'[l] = timer[l]
  BY <1>4 DEF TypeOK, ServerTypeOK
<1> QED BY <1>4, <1>5, <1>6

\* Every step keeps the turns of l.
LEMMA TurnStep ==
  ASSUME TypeOK, NEW l \in Server, RoleInv(l), TermInv(l), TurnInv(l), [Next]_vars
  PROVE  TurnInv(l)'
<1> USE DEF serverVars, triggerVars, candidateVars, voteCalls, appendCalls
<1>1. ASSUME NEW i \in Server, Abort(i) PROVE TurnInv(l)'
  <2>1. CASE i = l
    <3>1. queue'[l] = <<>> /\ identity'[l] = "Down" /\ currentTerm' = currentTerm
          /\ expiring'[l] = {} /\ voteReqs' = voteReqs /\ voteReplies' = voteReplies
      BY <1>1, <2>1 DEF Abort, TypeOK, ServerTypeOK
    <3>2. NoTurn(queue'[l]) /\ OneTurn(queue'[l]) BY <3>1 DEF NoTurn, OneTurn
    <3>3. VotesOfTerm(l)' BY <3>1 DEF VotesOfTerm, TurnInv
    <3> QED BY <3>1, <3>2, <3>3 DEF TurnInv, NoTimeoutBegun
  <2>2. CASE i # l
    <3>1. /\ queue'[l] = queue[l] /\ identity'[l] = identity[l]
          /\ timer'[l] = timer[l] /\ termTriggered' = termTriggered
          /\ currentTerm' = currentTerm /\ expiring'[l] = expiring[l]
          /\ voteReqs' = voteReqs /\ voteReplies' = voteReplies
      BY <1>1, <2>2 DEF Abort, TypeOK, ServerTypeOK
    <3> QED BY <3>1, TurnKept
  <2> QED BY <2>1, <2>2
<1>2. ASSUME NEW i \in Server, Expires(i) PROVE TurnInv(l)'
  <2>1. /\ identity' = identity /\ currentTerm' = currentTerm /\ queue' = queue
        /\ termTriggered' = termTriggered
        /\ voteReqs' = voteReqs /\ voteReplies' = voteReplies
    BY <1>2 DEF Expires
  <2>2. CASE i = l
    <3>1. timer[l] /\ ~timer'[l] /\ expiring'[l] = {currentTerm[l]}
      BY <1>2, <2>2 DEF Expires, TypeOK, ServerTypeOK
    <3>2. VotesOfTerm(l)' BY <2>1 DEF VotesOfTerm, TurnInv
    <3>3. Settled(l) => Settled(l)' BY <2>1, <3>1 DEF Settled, Fresh
    <3> QED BY <2>1, <3>1, <3>2, <3>3 DEF TurnInv, NoTimeoutBegun
  <2>3. CASE i # l
    <3>1. timer'[l] = timer[l] /\ expiring'[l] = expiring[l]
      BY <1>2, <2>3 DEF Expires, TypeOK, ServerTypeOK
    <3> QED BY <2>1, <3>1, TurnKept
  <2> QED BY <2>2, <2>3
<1>11. ASSUME NEW i \in Server, NotifyTimeout(i) PROVE TurnInv(l)'
  <2>1. PICK term \in expiring[i] : /\ expiring' = [expiring EXCEPT ![i] = {}]
                                   /\ Notify(i, "Candidate", term)
    BY <1>11 DEF NotifyTimeout
  <2>2. i = l BY <2>1 DEF RoleInv, Follows
  <2>3. /\ term = currentTerm[l] /\ ~NoTimeoutBegun(l) /\ expiring'[l] = {}
        /\ identity' = identity /\ currentTerm' = currentTerm /\ timer' = timer
        /\ voteReqs' = voteReqs /\ voteReplies' = voteReplies
    BY <1>11, <2>1, <2>2 DEF NotifyTimeout, TurnInv, NoTimeoutBegun, TypeOK
  <2>4. VotesOfTerm(l)' BY <2>3 DEF VotesOfTerm, TurnInv
  <2> QED BY <2>1, <2>2, <2>3, <2>4, TurnNotified DEF TurnInv
<1>3. ASSUME NEW i \in Server, Transform(i) PROVE TurnInv(l)'
  <2>1. CASE i = l BY <1>3, <2>1, TurnTransform
  <2>2. CASE i # l
    <3>1. ~BecomeCandidate(i) BY <2>2, RolesCandidate
    <3>2. PICK target : LeaveQuietly(i, target)
      BY <1>3, <3>1 DEF Transform, BecomeDown, BecomeFollower, BecomeLeader
    <3>3. PICK b : timer' = [timer EXCEPT ![i] = b]
      BY <1>3, <3>1 DEF Transform, BecomeDown, BecomeFollower, BecomeLeader
    <3>4. /\ queue'[l] = queue[l] /\ identity'[l] = identity[l]
          /\ timer'[l] = timer[l] /\ termTriggered' = termTriggered
          /\ currentTerm' = currentTerm /\ expiring' = expiring
          /\ voteReplies' \subseteq voteReplies
      BY <2>2, <3>2, <3>3 DEF LeaveQuietly, Leave, TypeOK, ServerTypeOK
    <3>5. LiveCalls(voteReqs, i) \in SUBSET voteReqs BY DEF LiveCalls
    <3>6. voteReqs \in SUBSET RequestVoteMessage BY DEF TypeOK
    <3>7. voteReqs' \in Abandon(voteReqs, LiveCalls(voteReqs, i))
      BY <3>2 DEF LeaveQuietly
    <3>8. \A m \in voteReqs' : m.live => m \in voteReqs
      BY <3>5, <3>6, <3>7, LeftVotes
    <3> QED BY <3>4, <3>8, TurnKept
  <2> QED BY <2>1, <2>2
<1>4. ASSUME NEW i \in Server, Stop(i) PROVE TurnInv(l)'
  <2> DEFINE e == [to |-> "Down", term |-> 0]
  <2>1. /\ identity' = identity /\ timer' = timer /\ termTriggered' = termTriggered
        /\ currentTerm' = currentTerm /\ expiring' = expiring
        /\ voteReqs' = voteReqs /\ voteReplies' = voteReplies
        /\ queue'[l] = queue[l] \/ queue'[l] = Append(queue[l], e)
    BY <1>4 DEF Stop, TypeOK, ServerTypeOK
  <2>2. CASE queue'[l] = queue[l] BY <2>1, <2>2, TurnKept
  <2>3. CASE queue'[l] = Append(queue[l], e)
    <3>1. queue[l] \in Seq(Event) /\ e \in Event /\ e.to = "Down"
      BY DEF TypeOK, ServerTypeOK, Event, Identity
    <3> HIDE DEF e
    <3>2. OneTurn(queue'[l]) /\ (NoTurn(queue'[l]) <=> NoTurn(queue[l]))
      BY <2>3, <3>1, TurnAppended DEF TurnInv
    <3>3. (Settled(l)' <=> Settled(l)) /\ VotesOfTerm(l)'
      BY <2>1 DEF Settled, Fresh, NoTimeoutBegun, TurnInv, VotesOfTerm
    <3> QED BY <2>1, <3>2, <3>3 DEF TurnInv, NoTimeoutBegun
  <2> QED BY <2>1, <2>2, <2>3
<1>5. ASSUME NEW m \in voteReqs, ServeRequestVote(m) PROVE TurnInv(l)'
  <2>1. m.to \in Server /\ m.to # l
    BY DEF RoleInv, CallsAreOf, TypeOK, RequestVoteMessage
  <2>2. /\ queue'[l] = queue[l] /\ identity'[l] = identity[l]
        /\ timer'[l] = timer[l] /\ termTriggered'[l] = termTriggered[l]
        /\ currentTerm'[l] = currentTerm[l] /\ expiring' = expiring
    BY <1>5, <2>1, ServedElsewhere
  <2>3. /\ voteReqs' = voteReqs \ {m}
        /\ voteReplies' = IF m.live THEN voteReplies \cup {VoteAnswer(m.to, m)}
                                    ELSE voteReplies
    BY <1>5 DEF ServeRequestVote
  <2>4. VoteAnswer(m.to, m).sent = m.term BY DEF VoteAnswer
  <2>5. VotesOfTerm(l)' BY <2>2, <2>3, <2>4 DEF TurnInv, VotesOfTerm
  <2>6. Settled(l)' <=> Settled(l) BY <2>2 DEF Settled, Fresh, NoTimeoutBegun
  <2> QED BY <2>2, <2>5, <2>6 DEF TurnInv, NoTimeoutBegun
<1>6. ASSUME NEW m \in appendReqs, ServeAppendEntries(m) PROVE TurnInv(l)'
  <2>1. m.to \in Server /\ m.to # l
    BY DEF RoleInv, CallsAreOf, TypeOK, AppendEntriesMessage
  <2>2. /\ queue'[l] = queue[l] /\ identity'[l] = identity[l]
        /\ timer'[l] = timer[l] /\ termTriggered'[l] = termTriggered[l]
        /\ currentTerm'[l] = currentTerm[l] /\ expiring' = expiring
    BY <1>6, <2>1, ServedElsewhere
  <2>3. voteReqs' = voteReqs /\ voteReplies' = voteReplies
    BY <1>6 DEF ServeAppendEntries
  <2> QED BY <2>2, <2>3, TurnKept
<1>7. ASSUME NEW r \in voteReplies, TakeVoteReply(r) PROVE TurnInv(l)'
  <2>1. r.from = l /\ r.sent = currentTerm[l] /\ currentTerm[l] > 0
    BY DEF RoleInv, CallsAreOf, TurnInv, VotesOfTerm
  <2>2. /\ identity' = identity /\ timer' = timer /\ currentTerm' = currentTerm
        /\ expiring' = expiring /\ voteReqs' = voteReqs /\ voteReplies' \subseteq voteReplies
    BY <1>7 DEF TakeVoteReply
  <2>3. CASE UNCHANGED triggerVars BY <2>2, <2>3, TurnKept
  <2>4. CASE Notify(l, "Leader", currentTerm[l])
    <3>1. VotesOfTerm(l)' BY <2>2 DEF VotesOfTerm, TurnInv
    <3> QED BY <2>1, <2>2, <2>4, <3>1, TurnNotified DEF TurnInv, NoTimeoutBegun
  <2> QED BY <1>7, <2>1, <2>3, <2>4 DEF TakeVoteReply
<1>8. ASSUME NEW r \in appendReplies, TakeAppendReply(r) PROVE TurnInv(l)'
  <2>1. r.from \in Server BY DEF TypeOK, AppendReply
  <2>2. CASE TakeAppendSuccessCrashes(r)
    BY <1>1, <2>1, <2>2 DEF TakeAppendSuccessCrashes
  <2>3. CASE TakeAppendSuccess(r) \/ TakeAppendRejection(r)
    <3>1. /\ queue' = queue /\ identity' = identity /\ timer' = timer
          /\ termTriggered' = termTriggered /\ currentTerm' = currentTerm
          /\ expiring' = expiring /\ voteReqs' = voteReqs /\ voteReplies' = voteReplies
      BY <2>3 DEF TakeAppendSuccess, TakeAppendRejection
    <3> QED BY <3>1, TurnKept
  <2> QED BY <1>8, <2>2, <2>3, TermStep DEF TakeAppendReply
<1>9. ASSUME \/ \E i \in Server : AddLogState(i) \/ Stopped(i)
             \/ \E i, j \in Server : SendAppendEntries(i, j)
             \/ \E i \in Server, req \in Request : AddLog(i, req)
             \/ UNCHANGED vars
      PROVE  TurnInv(l)'
  <2>1. /\ queue' = queue /\ identity' = identity /\ timer' = timer
        /\ termTriggered' = termTriggered /\ currentTerm' = currentTerm
        /\ expiring' = expiring /\ voteReqs' = voteReqs /\ voteReplies' = voteReplies
    BY <1>9 DEF AddLogState, Stopped, SendAppendEntries, AddLog, vars
  <2> QED BY <2>1, TurnKept
<1>10. ASSUME NEW i \in Server, NEW j \in Server, SendAppendEntriesThrows(i, j)
       PROVE  TurnInv(l)'
  BY <1>1, <1>10 DEF SendAppendEntriesThrows
<1> QED
  BY <1>2, <1>3, <1>4, <1>5, <1>6, <1>7, <1>8, <1>9, <1>10, <1>11 DEF Next

-----------------------------------------------------------------------------
(***************************************************************************)
(* The LogStates of l: no more than it has entries, the one that an addLog  *)
(* between its two critical sections still owes included.                   *)
(***************************************************************************)
NoStop(q) == \A k \in 1..Len(q) : q[k].to # "Down"

Owed(l) == IF adding[l] THEN 1 ELSE 0

CountInv(l) ==
  /\ adding[l] => identity[l] = "Leader" /\ phase[l] = "up"
  /\ phase[l] = "up" => NoStop(queue[l])
  /\ Len(replicateNum[l]) + Owed(l) <= Len(entries[l])

\* A queue without Stop stays without, whatever notify adds and the thread takes.
LEMMA NoStopKept ==
  ASSUME NEW q \in Seq(Event), NoStop(q)
  PROVE  /\ q # <<>> => NoStop(Tail(q)) /\ Head(q).to # "Down"
         /\ \A e \in Event : e.to # "Down" => NoStop(Append(q, e))
<1>1. ASSUME q # <<>> PROVE NoStop(Tail(q)) /\ Head(q).to # "Down"
  <2>1. Len(q) \in Nat \ {0} BY <1>1, EmptySeq
  <2>2. /\ Len(Tail(q)) = Len(q) - 1
        /\ \A k \in 1..Len(Tail(q)) : Tail(q)[k] = q[k + 1]
    BY <1>1, HeadTailProperties
  <2>3. Head(q) = q[1] BY <2>1
  <2> QED BY <2>1, <2>2, <2>3 DEF NoStop
<1>2. ASSUME NEW e \in Event, e.to # "Down" PROVE NoStop(Append(q, e))
  <2>1. /\ Len(Append(q, e)) = Len(q) + 1 /\ Len(q) \in Nat
        /\ \A k \in 1..Len(q) : Append(q, e)[k] = q[k]
        /\ Append(q, e)[Len(q) + 1] = e
    BY AppendProperties, LenProperties
  <2> QED BY <1>2, <2>1 DEF NoStop
<1> QED BY <1>1, <1>2

\* Where l gets no LogState and at most triggers a transformation.
LEMMA CountKept ==
  ASSUME TypeOK, TypeOK', NEW l \in Server, CountInv(l),
         adding'[l] = adding[l], identity'[l] = identity[l], phase'[l] = phase[l],
         Len(replicateNum'[l]) = Len(replicateNum[l]),
         Len(entries[l]) <= Len(entries'[l]),
         \/ queue'[l] = queue[l]
         \/ \E e \in Event : e.to # "Down" /\ queue'[l] = Append(queue[l], e)
  PROVE  CountInv(l)'
<1>1. /\ Len(replicateNum[l]) \in Nat /\ Len(entries[l]) \in Nat
      /\ Len(entries'[l]) \in Nat /\ queue[l] \in Seq(Event)
  BY LenProperties DEF TypeOK, ServerTypeOK
<1>2. phase'[l] = "up" => NoStop(queue'[l]) BY <1>1, NoStopKept DEF CountInv
<1>3. Owed(l)' = Owed(l) /\ Owed(l) \in Nat BY DEF Owed
<1>4. Len(replicateNum'[l]) + Owed(l)' <= Len(entries'[l])
  <2>1. Len(replicateNum[l]) + Owed(l) <= Len(entries[l]) BY DEF CountInv
  <2> QED BY <1>1, <1>3, <2>1
<1> QED BY <1>2, <1>4 DEF CountInv

\* While addLog is between its critical sections l makes no transformation:
\* nothing has triggered one, and Stop waits for the handler.
LEMMA CountTransform ==
  ASSUME TypeOK, TypeOK', NEW l \in Server, TurnInv(l), CountInv(l), Transform(l)
  PROVE  CountInv(l)'
<1>1. PICK target \in Identity : Leave(l, target)
  BY DEF Transform, BecomeDown, BecomeFollower, BecomeLeader, BecomeCandidate,
         LeaveQuietly, Identity
<1>2. queue[l] # <<>> /\ queue[l] \in Seq(Event) BY <1>1 DEF Leave, TypeOK, ServerTypeOK
<1>3. ~adding[l]
  <2> SUFFICES ASSUME adding[l] PROVE FALSE OBVIOUS
  <2>1. NoTurn(queue[l]) /\ NoStop(queue[l]) BY DEF CountInv, TurnInv
  <2>2. 1 \in 1..Len(queue[l]) BY <1>2, EmptySeq
  <2> QED BY <2>1, <2>2 DEF NoTurn, NoStop
<1>4. adding' = adding /\ phase' = phase /\ entries' = entries
  BY <1>1 DEF Leave, logVars
<1>5. Owed(l)' = 0 /\ ~adding'[l] BY <1>3, <1>4 DEF Owed
<1>6. /\ queue'[l] = Tail(queue[l]) \/ \E e \in Event : e.to # "Down"
                                         /\ queue'[l] = Append(Tail(queue[l]), e)
      /\ replicateNum'[l] = <<>> \/ replicateNum'[l] = [k \in 1..Len(entries[l]) |-> 1]
  <2>1. CASE BecomeCandidate(l)
    <3> DEFINE e == [to |-> "Leader", term |-> currentTerm[l] + 1]
    <3>1. e \in Event /\ e.to # "Down"
      <4>1. currentTerm[l] \in Nat BY DEF TypeOK, ServerTypeOK
      <4>2. currentTerm[l] + 1 \in Nat BY <4>1
      <4> QED BY <4>2 DEF Event, Identity
    <3>2. queue'[l] = Tail(queue[l]) \/ queue'[l] = Append(Tail(queue[l]), e)
      <4>1. PICK q : queue' = [queue EXCEPT ![l] = q]
                     /\ q \in {Tail(queue[l]), Append(Tail(queue[l]), e)}
        BY <2>1 DEF BecomeCandidate, Notified
      <4>2. queue'[l] = q BY <4>1 DEF TypeOK, ServerTypeOK
      <4> QED BY <4>1, <4>2
    <3>3. replicateNum'[l] = <<>> BY <2>1 DEF BecomeCandidate, TypeOK
    <3> HIDE DEF e
    <3> QED BY <3>1, <3>2, <3>3
  <2>2. CASE BecomeDown(l) BY <2>2 DEF BecomeDown, LeaveQuietly, TypeOK, ServerTypeOK
  <2>3. CASE BecomeFollower(l) BY <2>3 DEF BecomeFollower, LeaveQuietly, TypeOK, ServerTypeOK
  <2>4. CASE BecomeLeader(l) BY <2>4 DEF BecomeLeader, LeaveQuietly, TypeOK, ServerTypeOK
  <2> QED BY <2>1, <2>2, <2>3, <2>4 DEF Transform
<1>7. Len(entries[l]) \in Nat BY LenProperties DEF TypeOK, ServerTypeOK
<1>8. Len(replicateNum'[l]) \in Nat /\ Len(replicateNum'[l]) <= Len(entries'[l])
  <2>1. CASE replicateNum'[l] = <<>> BY <1>4, <1>7, <2>1
  <2>2. CASE replicateNum'[l] = [k \in 1..Len(entries[l]) |-> 1]
    BY <1>4, <1>7, <2>2
  <2> QED BY <1>6, <2>1, <2>2
<1>9. Tail(queue[l]) \in Seq(Event) BY <1>2, HeadTailProperties
<1>10. phase'[l] = "up" => NoStop(queue'[l])
  BY <1>2, <1>4, <1>6, <1>9, NoStopKept DEF CountInv
<1>11. Len(replicateNum'[l]) + Owed(l)' <= Len(entries'[l]) BY <1>5, <1>8
<1> QED BY <1>5, <1>10, <1>11 DEF CountInv

\* Every step keeps the LogStates of l within its log.
LEMMA CountStep ==
  ASSUME TypeOK, TypeOK', NEW l \in Server, OneStands(l), RoleInv(l), LogInv(l),
         TermInv(l), TurnInv(l), CountInv(l), [Next]_vars
  PROVE  CountInv(l)'
<1> USE DEF serverVars, triggerVars, leaderVars
<1>1. Len(entries[l]) <= Len(entries'[l])
  <2>1. Stands(entries[l], 0, entries'[l]) BY LogStep
  <2>2. Len(entries[l]) \in Nat BY LenProperties DEF TypeOK, ServerTypeOK
  <2> QED BY <2>1, <2>2 DEF Stands
<1>2. ASSUME NEW i \in Server, Abort(i) PROVE CountInv(l)'
  <2>1. CASE i = l
    <3>1. phase'[l] = "aborted" /\ ~adding'[l] /\ replicateNum'[l] = <<>>
      BY <1>2, <2>1 DEF Abort, TypeOK
    <3>2. Len(entries'[l]) \in Nat BY LenProperties DEF TypeOK, ServerTypeOK
    <3> QED BY <3>1, <3>2 DEF CountInv, Owed
  <2>2. CASE i # l
    <3>1. /\ queue'[l] = queue[l] /\ identity'[l] = identity[l]
          /\ phase'[l] = phase[l] /\ adding'[l] = adding[l]
          /\ replicateNum'[l] = replicateNum[l]
      <4>1. queue'[l] = queue[l] /\ identity'[l] = identity[l]
        BY <1>2, <2>2 DEF Abort, TypeOK, ServerTypeOK
      <4>2. phase'[l] = phase[l] /\ adding'[l] = adding[l]
            /\ replicateNum'[l] = replicateNum[l]
        BY <1>2, <2>2 DEF Abort, TypeOK
      <4> QED BY <4>1, <4>2
    <3> QED BY <1>1, <3>1, CountKept
  <2> QED BY <2>1, <2>2
<1>3. ASSUME NEW to \in {"Candidate", "Leader"}, NEW term \in Nat, Notify(l, to, term),
             identity' = identity, phase' = phase, UNCHANGED leaderVars
      PROVE  CountInv(l)'
  <2> DEFINE e == [to |-> to, term |-> term]
  <2>1. e \in Event /\ e.to # "Down" BY DEF Event, Identity
  <2>2. queue'[l] = queue[l] \/ queue'[l] = Append(queue[l], e)
    BY <1>3 DEF Notify, Notified, TypeOK, ServerTypeOK
  <2> HIDE DEF e
  <2> QED BY <1>1, <1>3, <2>1, <2>2, CountKept
<1>4. ASSUME NEW i \in Server, Expires(i) \/ NotifyTimeout(i) PROVE CountInv(l)'
  <2>1. identity' = identity /\ phase' = phase /\ UNCHANGED leaderVars
    BY <1>4 DEF Expires, NotifyTimeout
  <2>2. CASE queue' = queue BY <1>1, <2>1, <2>2, CountKept
  <2>3. CASE queue' # queue
    <3>1. PICK term \in expiring[i] : Notify(i, "Candidate", term)
      BY <1>4, <2>3 DEF Expires, NotifyTimeout
    <3>2. term \in Nat BY DEF TypeOK
    <3>3. CASE i = l BY <1>3, <2>1, <3>1, <3>2, <3>3
    <3>4. CASE i # l
      <4>1. queue'[l] = queue[l] BY <3>1, <3>4 DEF Notify, TypeOK, ServerTypeOK
      <4> QED BY <1>1, <2>1, <4>1, CountKept
    <3> QED BY <3>3, <3>4
  <2> QED BY <2>2, <2>3
<1>5. ASSUME NEW i \in Server, Transform(i) PROVE CountInv(l)'
  <2>1. CASE i = l BY <1>5, <2>1, CountTransform
  <2>2. CASE i # l
    <3>1. ~BecomeCandidate(i) BY <2>2, RolesCandidate
    <3>2. PICK target : LeaveQuietly(i, target)
      BY <1>5, <3>1 DEF Transform, BecomeDown, BecomeFollower, BecomeLeader
    <3>3. PICK n : replicateNum' = [replicateNum EXCEPT ![i] = n]
      BY <1>5, <3>1 DEF Transform, BecomeDown, BecomeFollower, BecomeLeader
    <3>4. /\ queue'[l] = queue[l] /\ identity'[l] = identity[l]
          /\ phase' = phase /\ adding' = adding
          /\ replicateNum'[l] = replicateNum[l]
      BY <2>2, <3>2, <3>3 DEF LeaveQuietly, Leave, TypeOK, ServerTypeOK
    <3> QED BY <1>1, <3>4, CountKept
  <2> QED BY <2>1, <2>2
<1>6. ASSUME NEW i \in Server, Stop(i) \/ Stopped(i) PROVE CountInv(l)'
  <2>1. identity' = identity /\ UNCHANGED leaderVars BY <1>6 DEF Stop, Stopped
  <2>2. CASE i = l
    <3>1. phase'[l] # "up" /\ ~adding[l]
      BY <1>6, <2>2 DEF Stop, Stopped, HandlerFree, CountInv, TypeOK
    <3>2. Len(replicateNum[l]) \in Nat /\ Len(entries[l]) \in Nat
          /\ Len(entries'[l]) \in Nat
      BY LenProperties DEF TypeOK, ServerTypeOK
    <3>3. Len(replicateNum[l]) <= Len(entries[l]) BY <3>1, <3>2 DEF CountInv, Owed
    <3>4. Len(replicateNum'[l]) + Owed(l)' <= Len(entries'[l])
      BY <1>1, <2>1, <3>1, <3>2, <3>3 DEF Owed
    <3> QED BY <2>1, <3>1, <3>4 DEF CountInv
  <2>3. CASE i # l
    <3>1. queue'[l] = queue[l]
      <4>1. queue' = queue \/ \E q : queue' = [queue EXCEPT ![i] = q]
        BY <1>6 DEF Stop, Stopped, serverVars, triggerVars
      <4> QED BY <2>3, <4>1 DEF TypeOK, ServerTypeOK
    <3>2. phase'[l] = phase[l] BY <1>6, <2>3 DEF Stop, Stopped, TypeOK
    <3> QED BY <1>1, <2>1, <3>1, <3>2, CountKept
  <2> QED BY <2>2, <2>3
<1>7. ASSUME NEW m \in voteReqs, ServeRequestVote(m) PROVE CountInv(l)'
  <2>1. m.to \in Server \ {l}
    BY DEF RoleInv, CallsAreOf, TypeOK, RequestVoteMessage
  <2>2. queue'[l] = queue[l] /\ identity'[l] = identity[l]
    BY <1>7, <2>1, ServedElsewhere
  <2>3. phase' = phase /\ UNCHANGED leaderVars BY <1>7 DEF ServeRequestVote
  <2> QED BY <1>1, <2>2, <2>3, CountKept
<1>8. ASSUME NEW m \in appendReqs, ServeAppendEntries(m) PROVE CountInv(l)'
  <2>1. m.to \in Server \ {l}
    BY DEF RoleInv, CallsAreOf, TypeOK, AppendEntriesMessage
  <2>2. queue'[l] = queue[l] /\ identity'[l] = identity[l]
    BY <1>8, <2>1, ServedElsewhere
  <2>3. phase' = phase /\ UNCHANGED leaderVars BY <1>8 DEF ServeAppendEntries
  <2> QED BY <1>1, <2>2, <2>3, CountKept
<1>9. ASSUME NEW r \in voteReplies, TakeVoteReply(r) PROVE CountInv(l)'
  <2>1. r.from = l /\ r.sent \in Nat
    BY DEF RoleInv, CallsAreOf, TypeOK, VoteReply
  <2>2. identity' = identity /\ phase' = phase /\ UNCHANGED leaderVars
    BY <1>9 DEF TakeVoteReply
  <2>3. CASE UNCHANGED triggerVars BY <1>1, <2>2, <2>3, CountKept
  <2>4. CASE Notify(l, "Leader", r.sent) BY <1>3, <2>1, <2>2, <2>4
  <2> QED BY <1>9, <2>1, <2>3, <2>4 DEF TakeVoteReply
<1>10. ASSUME NEW r \in appendReplies, TakeAppendReply(r) PROVE CountInv(l)'
  <2>1. r.from = l BY DEF RoleInv, CallsAreOf
  <2>2. CASE TakeAppendSuccessCrashes(r)
    BY <1>2, <2>1, <2>2 DEF TakeAppendSuccessCrashes
  <2>3. CASE TakeAppendSuccess(r)
    <3> DEFINE n == replicateNum[l]
               count == [k \in 1..Len(n) |-> IF k > matchIdx[l][r.to] THEN n[k] + 1
                                                                     ELSE n[k]]
    <3>1. queue' = queue /\ identity' = identity /\ phase' = phase /\ adding' = adding
      BY <2>3 DEF TakeAppendSuccess
    <3>2. replicateNum'[l] = count BY <2>1, <2>3 DEF TakeAppendSuccess, TypeOK
    <3>3. Len(n) \in Nat BY LenProperties DEF TypeOK
    <3>4. Len(replicateNum'[l]) = Len(n)
      <4> HIDE DEF n
      <4> QED BY <3>2, <3>3
    <3> QED BY <1>1, <3>1, <3>4, CountKept
  <2>4. CASE TakeAppendRejection(r)
    BY <1>1, <2>4, CountKept DEF TakeAppendRejection
  <2> QED BY <1>10, <2>2, <2>3, <2>4, TermStep DEF TakeAppendReply
<1>11. ASSUME NEW i \in Server, NEW j \in Server,
              SendAppendEntries(i, j) \/ SendAppendEntriesThrows(i, j)
       PROVE  CountInv(l)'
  <2>1. CASE SendAppendEntries(i, j)
    BY <1>1, <2>1, CountKept DEF SendAppendEntries
  <2>2. CASE SendAppendEntriesThrows(i, j)
    BY <1>2, <2>2 DEF SendAppendEntriesThrows
  <2> QED BY <1>11, <2>1, <2>2
<1>12. ASSUME NEW i \in Server, NEW req \in Request, AddLog(i, req) PROVE CountInv(l)'
  <2>1. i = l BY <1>12 DEF AddLog, RoleInv, Follows
  <2>2. /\ ~adding[l] /\ phase[l] = "up" /\ identity[l] = "Leader"
        /\ queue' = queue /\ identity' = identity /\ phase' = phase
        /\ replicateNum' = replicateNum
    BY <1>12, <2>1 DEF AddLog, HandlerFree
  <2>3. \/ entries'[l] = entries[l] /\ adding' = adding
        \/ entries'[l] = Append(entries[l], [term |-> currentTerm[l], req |-> req])
    <3>1. entries \in [Server -> Seq(Entry)] BY DEF TypeOK, ServerTypeOK
    <3>2. \/ entries' = [entries EXCEPT ![l] =
                           Append(entries[l], [term |-> currentTerm[l], req |-> req])]
          \/ entries' = entries /\ adding' = adding
      BY <1>12, <2>1 DEF AddLog
    <3> QED BY <3>1, <3>2
  <2>4. CASE adding' = adding BY <1>1, <2>2, <2>4, CountKept
  <2>5. CASE adding' # adding
    <3>1. entries'[l] = Append(entries[l], [term |-> currentTerm[l], req |-> req])
      BY <2>3, <2>5
    <3>2. [term |-> currentTerm[l], req |-> req] \in Entry
      BY DEF Entry, Label, TypeOK, ServerTypeOK
    <3>3. entries[l] \in Seq(Entry) BY DEF TypeOK, ServerTypeOK
    <3>4. Len(entries'[l]) = Len(entries[l]) + 1 /\ Len(entries[l]) \in Nat
      BY <3>1, <3>2, <3>3, AppendProperties, LenProperties
    <3>5. Len(replicateNum[l]) \in Nat BY LenProperties DEF TypeOK
    <3>6. Len(replicateNum[l]) <= Len(entries[l])
      BY <2>2, <3>4, <3>5 DEF CountInv, Owed
    <3>7. Len(replicateNum'[l]) + Owed(l)' <= Len(entries'[l])
      <4>1. Owed(l)' \in {0, 1} BY DEF Owed
      <4>2. Len(replicateNum'[l]) = Len(replicateNum[l]) BY <2>2
      <4> QED BY <3>4, <3>5, <3>6, <4>1, <4>2
    <3>8. phase'[l] = "up" => NoStop(queue'[l]) BY <2>2 DEF CountInv
    <3>9. identity'[l] = "Leader" /\ phase'[l] = "up" BY <2>2
    <3> QED BY <3>7, <3>8, <3>9 DEF CountInv
  <2> QED BY <2>4, <2>5
<1>13. ASSUME NEW i \in Server, AddLogState(i) PROVE CountInv(l)'
  <2>1. i = l BY <1>13 DEF AddLogState, RoleInv, Follows
  <2>2. /\ adding[l] /\ ~adding'[l] /\ entries' = entries
        /\ queue' = queue /\ identity' = identity /\ phase' = phase
        /\ replicateNum'[l] = Append(replicateNum[l], 1)
    BY <1>13, <2>1 DEF AddLogState, logVars, TypeOK
  <2>3. replicateNum[l] \in Seq(Nat) /\ Len(replicateNum[l]) \in Nat
    BY LenProperties DEF TypeOK
  <2>4. Len(replicateNum'[l]) = Len(replicateNum[l]) + 1
    BY <2>2, <2>3, AppendProperties
  <2>5. Len(entries[l]) \in Nat BY LenProperties DEF TypeOK, ServerTypeOK
  <2>6. Len(replicateNum[l]) + 1 <= Len(entries[l]) BY <2>2 DEF CountInv, Owed
  <2>7. Len(replicateNum'[l]) + Owed(l)' <= Len(entries'[l])
    BY <2>2, <2>3, <2>4, <2>5, <2>6 DEF Owed
  <2> QED BY <2>2, <2>7 DEF CountInv
<1>14. CASE UNCHANGED vars BY <1>1, <1>14, CountKept DEF vars
<1> QED
  BY <1>4, <1>5, <1>6, <1>7, <1>8, <1>9, <1>10, <1>11, <1>12, <1>13, <1>14 DEF Next

-----------------------------------------------------------------------------
(***************************************************************************)
(* What the services were handed: the labels of the first entries of the    *)
(* log, no two of which are the same.                                       *)
(***************************************************************************)
Handed(s, log) == Len(s) <= Len(log) /\ \A k \in 1..Len(s) : s[k] = log[k].req

Distinct(log) == \A k, n \in 1..Len(log) : log[k].req = log[n].req => k = n

ApplyInv(l) ==
  /\ \A i \in Server : commitIdx[i] <= Len(entries[i])
  /\ \A i \in Server : Handed(applied[i], entries[i])
  /\ Distinct(entries[l])

\* applyReadyEntries up to an index within the log hands over the next entries.
LEMMA HandedApplied ==
  ASSUME TypeOK, CommittedIsApplied, NEW i \in Server, NEW log \in Seq(Entry),
         NEW c \in Nat, c <= Len(log), Handed(applied[i], log),
         ApplyReadyEntries(i, log, c)
  PROVE  Handed(applied'[i], log)
<1> DEFINE s == applied[i]
           n == Ready(i, c)
           more == [k \in 1..n |-> RequestAt(log, lastApplied[i] + k)]
<1>1. /\ s \in Seq(Label) /\ Len(s) \in Nat /\ Len(log) \in Nat
      /\ Len(s) = lastApplied[i] /\ Len(s) <= Len(log)
  BY LenProperties DEF TypeOK, ServerTypeOK, CommittedIsApplied, Handed
<1>2. n \in Nat /\ Len(s) + n <= Len(log) BY <1>1 DEF Ready
<1>3. applied'[i] = s \o more
  BY DEF ApplyReadyEntries, TypeOK, ServerTypeOK
<1>4. ASSUME NEW k \in 1..n
      PROVE  RequestAt(log, Len(s) + k) = log[Len(s) + k].req
  <2>1. Len(s) + k \in 1..Len(log) BY <1>1, <1>2
  <2> QED BY <2>1 DEF RequestAt
<1>5. ASSUME NEW k \in 1..n PROVE RequestAt(log, Len(s) + k) \in Label
  <2>1. Len(s) + k \in 1..Len(log) BY <1>1, <1>2
  <2>2. log[Len(s) + k] \in Entry BY <2>1
  <2> QED BY <1>4, <2>2 DEF Entry
<1>6. /\ more \in Seq(Label) /\ Len(more) = n
      /\ \A k \in 1..n : more[k] = log[Len(s) + k].req
  BY <1>1, <1>2, <1>4, <1>5
<1> HIDE DEF s, n, more
<1>7. /\ Len(s \o more) = Len(s) + n
      /\ \A k \in 1..(Len(s) + n) :
           (s \o more)[k] = IF k <= Len(s) THEN s[k] ELSE more[k - Len(s)]
  BY <1>1, <1>6, ConcatProperties
<1>8. ASSUME NEW k \in 1..(Len(s) + n) PROVE (s \o more)[k] = log[k].req
  <2>1. CASE k <= Len(s)
    <3>1. k \in 1..Len(s) BY <1>1, <1>2, <2>1
    <3> QED BY <1>7, <2>1, <3>1 DEF Handed, s
  <2>2. CASE ~(k <= Len(s))
    <3>1. k - Len(s) \in 1..n /\ Len(s) + (k - Len(s)) = k BY <1>1, <1>2, <2>2
    <3> QED BY <1>6, <1>7, <2>2, <3>1
  <2> QED BY <2>1, <2>2
<1> QED BY <1>2, <1>3, <1>7, <1>8 DEF Handed

\* What was handed over stays the beginning of a log that grows.
LEMMA HandedLonger ==
  ASSUME NEW s \in Seq(Label), NEW t \in Seq(Entry), NEW u \in Seq(Entry),
         Handed(s, t), Stands(t, 0, u)
  PROVE  Handed(s, u)
<1>1. Len(s) \in Nat /\ Len(t) \in Nat /\ Len(u) \in Nat BY LenProperties
<1>2. \A k \in 1..Len(s) : k \in 1..Len(t) /\ t[k] = u[0 + k] /\ 0 + k = k
  BY <1>1 DEF Handed, Stands
<1> QED BY <1>1, <1>2 DEF Handed, Stands

\* Where nothing is committed or applied, and the log of l gets no entry.
LEMMA ApplyKept ==
  ASSUME TypeOK, NEW l \in Server, ApplyInv(l),
         UNCHANGED <<entries, commitIdx, applied>>
  PROVE  ApplyInv(l)'
BY DEF ApplyInv

\* One server commits and applies, within its log.
LEMMA ApplyAt ==
  ASSUME TypeOK, TypeOK', NEW l \in Server, CommittedIsApplied, ApplyInv(l),
         NEW i \in Server, NEW c \in Nat,
         commitIdx' = [commitIdx EXCEPT ![i] = c], c <= Len(entries'[i]),
         ApplyReadyEntries(i, entries'[i], c),
         \A j \in Server : Stands(entries[j], 0, entries'[j]),
         entries'[l] = entries[l]
  PROVE  ApplyInv(l)'
<1>1. \A j \in Server : entries[j] \in Seq(Entry) /\ entries'[j] \in Seq(Entry)
                        /\ applied[j] \in Seq(Label) /\ commitIdx[j] \in Nat
                        /\ Len(entries[j]) \in Nat /\ Len(entries'[j]) \in Nat
  BY LenProperties DEF TypeOK, ServerTypeOK
<1>2. ASSUME NEW j \in Server PROVE Handed(applied[j], entries'[j])
  <2>1. Handed(applied[j], entries[j]) BY DEF ApplyInv
  <2> QED BY <1>1, <2>1, HandedLonger
<1>3. ASSUME NEW j \in Server PROVE Handed(applied'[j], entries'[j])
  <2>1. CASE j = i BY <1>1, <1>2, <2>1, HandedApplied
  <2>2. CASE j # i
    <3>1. applied'[j] = applied[j]
      BY <2>2 DEF ApplyReadyEntries, TypeOK, ServerTypeOK
    <3> QED BY <1>2, <3>1
  <2> QED BY <2>1, <2>2
<1>4. ASSUME NEW j \in Server PROVE commitIdx'[j] <= Len(entries'[j])
  <2>1. CASE j = i BY <2>1 DEF TypeOK, ServerTypeOK
  <2>2. CASE j # i
    <3>1. commitIdx'[j] = commitIdx[j] BY <2>2 DEF TypeOK, ServerTypeOK
    <3>2. commitIdx[j] <= Len(entries[j]) BY DEF ApplyInv
    <3>3. Len(entries[j]) <= Len(entries'[j]) BY <1>1 DEF Stands
    <3> QED BY <1>1, <3>1, <3>2, <3>3
  <2> QED BY <2>1, <2>2
<1> QED BY <1>3, <1>4 DEF ApplyInv

\* A message commits at most what the log then holds.
LEMMA ApplyServed ==
  ASSUME TypeOK, TypeOK', NEW l \in Server, RoleInv(l), LogInv(l), CommittedIsApplied,
         ApplyInv(l), NEW m \in appendReqs, ServeAppendEntries(m)
  PROVE  ApplyInv(l)'
<1> DEFINE i == m.to
           log == IF Accepts(i, m) THEN Merge(entries[i], m) ELSE entries[i]
           commit == IF Accepts(i, m) THEN CommitAfter(i, m, Len(log))
                                      ELSE commitIdx[i]
<1>1. /\ i \in Server /\ i # l /\ m.commitIdx \in Nat /\ commitIdx[i] \in Nat
      /\ commitIdx[i] <= Len(entries[i])
      /\ \A j \in Server : Len(entries[j]) \in Nat /\ Len(entries'[j]) \in Nat
  BY LenProperties DEF RoleInv, CallsAreOf, TypeOK, ServerTypeOK, AppendEntriesMessage,
                       ApplyInv
<1>2. CASE identity[i] = "Down" \/ IgnoresAppend(i, m)
  BY <1>2, ApplyKept
  DEF ServeAppendEntries, RPCAppendEntries, serverVars, logVars, applyVars
<1>3. CASE ~(identity[i] = "Down" \/ IgnoresAppend(i, m))
  <2>1. /\ entries' = [entries EXCEPT ![i] = log]
        /\ commitIdx' = [commitIdx EXCEPT ![i] = commit]
        /\ ApplyReadyEntries(i, log, commit)
    BY <1>3 DEF ServeAppendEntries, RPCAppendEntries
  <2>2. entries'[i] = log /\ entries'[l] = entries[l]
    BY <1>1, <2>1 DEF TypeOK, ServerTypeOK
  <2>3. \A j \in Server : Stands(entries[j], 0, entries'[j]) BY LogServed
  <2>4. Len(entries[i]) <= Len(log) /\ Len(log) \in Nat
    BY <1>1, <2>2, <2>3 DEF Stands
  <2>5. commit \in Nat /\ commit <= Len(log)
    <3> HIDE DEF log, i
    <3>1. m.commitIdx \in Int /\ Len(log) \in Int BY <1>1, <2>4
    <3>2. /\ Min({m.commitIdx, Len(log)}) \in {m.commitIdx, Len(log)}
          /\ Min({m.commitIdx, Len(log)}) <= Len(log)
      <4> DEFINE a == m.commitIdx
                 b == Len(log)
      <4>1. a \in Int /\ b \in Int BY <3>1
      <4> HIDE DEF a, b
      <4>2. Min({a, b}) \in {a, b} /\ Min({a, b}) <= b BY <4>1, MinOfTwo, Zenon
      <4> QED BY <4>2 DEF a, b
    <3>3. Min({m.commitIdx, Len(log)}) \in Nat BY <1>1, <2>4, <3>2
    <3>4. CommitAfter(i, m, Len(log)) \in {commitIdx[i], Min({m.commitIdx, Len(log)})}
      BY DEF CommitAfter
    <3>5. commit \in {commitIdx[i], Min({m.commitIdx, Len(log)})} BY <3>4
    <3> HIDE DEF commit
    <3> QED BY <1>1, <2>4, <3>2, <3>3, <3>5
  <2> HIDE DEF log, commit, i
  <2> QED BY <1>1, <2>1, <2>2, <2>3, <2>5, ApplyAt
<1> QED BY <1>2, <1>3

\* The count of replicas commits at most what the log holds.
LEMMA ApplyCounted ==
  ASSUME TypeOK, TypeOK', NEW l \in Server, RoleInv(l), CountInv(l), CommittedIsApplied,
         ApplyInv(l), NEW r \in appendReplies, TakeAppendSuccess(r)
  PROVE  ApplyInv(l)'
<1>1. r.from = l BY DEF RoleInv, CallsAreOf
<1>2. /\ commitIdx[l] \in Nat /\ Len(replicateNum[l]) \in Nat /\ Len(entries[l]) \in Nat
      /\ commitIdx[l] <= Len(entries[l])
  BY LenProperties DEF TypeOK, ServerTypeOK, ApplyInv
<1>3. Len(replicateNum[l]) <= Len(entries[l])
  <2>1. Owed(l) \in {0, 1} BY DEF Owed
  <2>2. Len(replicateNum[l]) + Owed(l) <= Len(entries[l]) BY DEF CountInv
  <2> QED BY <1>2, <2>1, <2>2
<1>4. PICK c \in {commitIdx[l]} \cup Counted(l, r) :
        /\ commitIdx' = [commitIdx EXCEPT ![l] = c]
        /\ ApplyReadyEntries(l, entries[l], c)
  BY <1>1 DEF TakeAppendSuccess
<1>5. c \in Nat /\ c <= Len(entries[l])
  <2>1. CASE c = commitIdx[l] BY <1>2, <2>1
  <2>2. CASE c \in Counted(l, r)
    <3>1. c \in 1..Len(replicateNum[l]) BY <2>2 DEF Counted
    <3> QED BY <1>2, <1>3, <3>1
  <2> QED BY <1>4, <2>1, <2>2
<1>6. entries' = entries BY DEF TakeAppendSuccess
<1>7. \A j \in Server : Stands(entries[j], 0, entries[j])
  BY StandsItself DEF TypeOK, ServerTypeOK
<1> QED BY <1>4, <1>5, <1>6, <1>7, ApplyAt

\* A vote commits nothing.
LEMMA ApplyVoted ==
  ASSUME TypeOK, TypeOK', NEW l \in Server, CommittedIsApplied, ApplyInv(l),
         NEW m \in voteReqs, ServeRequestVote(m)
  PROVE  ApplyInv(l)'
<1> DEFINE i == m.to
<1>1. i \in Server /\ commitIdx[i] \in Nat /\ commitIdx[i] <= Len(entries[i])
  BY DEF TypeOK, ServerTypeOK, RequestVoteMessage, ApplyInv
<1>2. CASE identity[i] = "Down"
  BY <1>2, ApplyKept
  DEF ServeRequestVote, RPCRequestVote, serverVars, logVars, applyVars
<1>3. CASE identity[i] # "Down"
  <2>1. /\ commitIdx' = commitIdx /\ entries' = entries
        /\ ApplyReadyEntries(i, entries[i], commitIdx[i])
    BY <1>3 DEF ServeRequestVote, RPCRequestVote, logVars
  <2>2. commitIdx' = [commitIdx EXCEPT ![i] = commitIdx[i]]
    BY <2>1 DEF TypeOK, ServerTypeOK
  <2>3. \A j \in Server : Stands(entries[j], 0, entries[j])
    BY StandsItself DEF TypeOK, ServerTypeOK
  <2> HIDE DEF i
  <2> QED BY <1>1, <2>1, <2>2, <2>3, ApplyAt
<1> QED BY <1>2, <1>3

\* addLog logs no request a second time.
LEMMA ApplyAdded ==
  ASSUME TypeOK, TypeOK', NEW l \in Server, RoleInv(l), LogInv(l), ApplyInv(l),
         NEW i \in Server, NEW req \in Request, AddLog(i, req)
  PROVE  ApplyInv(l)'
<1> DEFINE e == [term |-> currentTerm[l], req |-> req]
           log == entries[l]
<1>1. i = l BY DEF AddLog, RoleInv, Follows
<1>2. commitIdx' = commitIdx /\ applied' = applied BY DEF AddLog, applyVars
<1>3. \/ entries' = entries
      \/ Unlogged(log, req) /\ entries' = [entries EXCEPT ![l] = Append(log, e)]
  BY <1>1 DEF AddLog
<1>4. CASE entries' = entries BY <1>2, <1>4, ApplyKept
<1>5. CASE Unlogged(log, req) /\ entries' = [entries EXCEPT ![l] = Append(log, e)]
  <2>1. e \in Entry /\ e.req = req BY DEF Entry, Label, TypeOK, ServerTypeOK
  <2>2. log \in Seq(Entry) /\ Len(log) \in Nat BY LenProperties DEF TypeOK, ServerTypeOK
  <2>3. entries'[l] = Append(log, e) BY <1>5 DEF TypeOK, ServerTypeOK
  <2> HIDE DEF log, e
  <2>4. /\ Len(entries'[l]) = Len(log) + 1
        /\ \A k \in 1..Len(log) : entries'[l][k] = log[k]
        /\ entries'[l][Len(log) + 1] = e
    BY <2>1, <2>2, <2>3, AppendProperties
  <2>5. \A k \in 1..Len(log) : log[k].req # req
    BY <1>5, <2>2 DEF Unlogged, RequestAt
  <2>6. Distinct(log) BY DEF ApplyInv, log
  <2>7. Distinct(entries'[l])
    <3> SUFFICES ASSUME NEW k \in 1..(Len(log) + 1), NEW n \in 1..(Len(log) + 1),
                        entries'[l][k].req = entries'[l][n].req
                 PROVE  k = n
      BY <2>4 DEF Distinct
    <3>1. /\ k \in 1..Len(log) \/ k = Len(log) + 1
          /\ n \in 1..Len(log) \/ n = Len(log) + 1
      BY <2>2
    <3>2. CASE k \in 1..Len(log) /\ n \in 1..Len(log) BY <2>4, <2>6, <3>2 DEF Distinct
    <3>3. CASE k = Len(log) + 1 /\ n \in 1..Len(log) BY <2>1, <2>4, <2>5, <3>3
    <3>4. CASE k \in 1..Len(log) /\ n = Len(log) + 1 BY <2>1, <2>4, <2>5, <3>4
    <3> QED BY <3>1, <3>2, <3>3, <3>4
  <2>8. \A j \in Server : Stands(entries[j], 0, entries'[j]) BY <1>1, LogAdded
  <2>9. \A j \in Server : entries[j] \in Seq(Entry) /\ entries'[j] \in Seq(Entry)
                          /\ applied[j] \in Seq(Label) /\ commitIdx[j] \in Nat
                          /\ Len(entries[j]) \in Nat /\ Len(entries'[j]) \in Nat
    BY LenProperties DEF TypeOK, ServerTypeOK
  <2>10. \A j \in Server : Handed(applied'[j], entries'[j])
    BY <1>2, <2>8, <2>9, HandedLonger DEF ApplyInv
  <2>11. ASSUME NEW j \in Server PROVE commitIdx'[j] <= Len(entries'[j])
    <3>1. commitIdx[j] <= Len(entries[j]) BY DEF ApplyInv
    <3>2. Len(entries[j]) <= Len(entries'[j]) BY <2>8, <2>9 DEF Stands
    <3> QED BY <1>2, <2>9, <3>1, <3>2
  <2> QED BY <2>7, <2>10, <2>11 DEF ApplyInv
<1> QED BY <1>3, <1>4, <1>5

\* Every step keeps what was handed over.
LEMMA ApplyStep ==
  ASSUME TypeOK, TypeOK', NEW l \in Server, RoleInv(l), LogInv(l), CountInv(l),
         CommittedIsApplied, ApplyInv(l), [Next]_vars
  PROVE  ApplyInv(l)'
<1> USE DEF serverVars, logVars, applyVars
<1>1. ASSUME \/ \E i \in Server : \/ Expires(i) \/ NotifyTimeout(i)
                                \/ AddLogState(i) \/ Stop(i) \/ Stopped(i)
             \/ \E r \in voteReplies : TakeVoteReply(r)
             \/ \E i, j \in Server :
                  SendAppendEntries(i, j) \/ SendAppendEntriesThrows(i, j)
             \/ UNCHANGED vars
      PROVE  ApplyInv(l)'
  BY <1>1, ApplyKept
  DEF Expires, NotifyTimeout, AddLogState, Stop, Stopped, TakeVoteReply, SendAppendEntries,
      SendAppendEntriesThrows, Abort, vars
<1>2. ASSUME NEW i \in Server, Transform(i) PROVE ApplyInv(l)'
  <2>1. PICK target \in Identity : Leave(i, target)
    BY <1>2 DEF Transform, BecomeDown, BecomeFollower, BecomeLeader, BecomeCandidate,
                LeaveQuietly, Identity
  <2> QED BY <2>1, ApplyKept DEF Leave
<1>3. ASSUME NEW r \in appendReplies, TakeAppendReply(r) PROVE ApplyInv(l)'
  <2>1. CASE TakeAppendSuccess(r) BY <2>1, ApplyCounted
  <2>2. CASE TakeAppendSuccessCrashes(r)
    BY <2>2, ApplyKept DEF TakeAppendSuccessCrashes, Abort
  <2>3. CASE TakeAppendGreaterTerm(r) BY <2>3, ApplyKept DEF TakeAppendGreaterTerm
  <2>4. CASE TakeAppendRejection(r) BY <2>4, ApplyKept DEF TakeAppendRejection
  <2> QED BY <1>3, <2>1, <2>2, <2>3, <2>4 DEF TakeAppendReply
<1>4. ASSUME NEW m \in voteReqs, ServeRequestVote(m) PROVE ApplyInv(l)'
  BY <1>4, ApplyVoted
<1>5. ASSUME NEW m \in appendReqs, ServeAppendEntries(m) PROVE ApplyInv(l)'
  BY <1>5, ApplyServed
<1>6. ASSUME NEW i \in Server, NEW req \in Request, AddLog(i, req) PROVE ApplyInv(l)'
  BY <1>6, ApplyAdded
<1> QED BY <1>1, <1>2, <1>3, <1>4, <1>5, <1>6 DEF Next

\* All of it, which every step keeps.
ContenderInv(l) ==
  /\ TypeOK /\ RoleInv(l) /\ LogInv(l) /\ TermInv(l) /\ TurnInv(l)
  /\ CountInv(l) /\ CommittedIsApplied /\ ApplyInv(l)

LEMMA ContenderInductive ==
  ASSUME NEW l \in Server, OneStands(l)
  PROVE  /\ Init => ContenderInv(l)
         /\ ContenderInv(l) /\ [Next]_vars => ContenderInv(l)'
<1>1. Init => ContenderInv(l)
  <2> SUFFICES ASSUME Init PROVE ContenderInv(l) OBVIOUS
  <2>1. TypeOK /\ RoleInv(l) /\ LogInv(l) BY OneLogInv
  <2>2. /\ \A i \in Server : /\ entries[i] = <<>> /\ applied[i] = <<>>
                             /\ commitIdx[i] = 0 /\ lastApplied[i] = 0
                             /\ currentTerm[i] = 0 /\ identity[i] = "Down"
                             /\ ~timer[i] /\ expiring[i] = {}
                             /\ ~adding[i] /\ replicateNum[i] = <<>>
        /\ queue[l] = <<[to |-> "Follower", term |-> 0]>>
        /\ voteReqs = {} /\ voteReplies = {} /\ appendReqs = {} /\ appendReplies = {}
    BY DEF Init, InitServer
  <2>3. TermInv(l)
    <3>1. \A i \in Server : currentTerm[i] <= currentTerm[l] BY <2>2
    <3> QED BY <2>2, <3>1 DEF TermInv
  <2>4. /\ Len(queue[l]) = 1 /\ queue[l][1].to = "Follower" BY <2>2
  <2>5. TurnInv(l)
    <3>1. OneTurn(queue[l]) BY <2>4 DEF OneTurn
    <3>2. Settled(l) BY <2>2 DEF Settled, NoTimeoutBegun
    <3> QED BY <2>2, <3>1, <3>2 DEF TurnInv, VotesOfTerm
  <2>6. CountInv(l)
    <3>1. Len(replicateNum[l]) = 0 /\ Len(entries[l]) = 0 /\ Owed(l) = 0
      BY <2>2 DEF Owed
    <3>2. NoStop(queue[l]) BY <2>4 DEF NoStop
    <3> QED BY <2>2, <3>1, <3>2 DEF CountInv
  <2>7. CommittedIsApplied BY <2>2 DEF CommittedIsApplied
  <2>8. ApplyInv(l) BY <2>2 DEF ApplyInv, Handed, Distinct
  <2> QED BY <2>1, <2>3, <2>5, <2>6, <2>7, <2>8 DEF ContenderInv
<1>2. ContenderInv(l) /\ [Next]_vars => ContenderInv(l)'
  <2> SUFFICES ASSUME ContenderInv(l), [Next]_vars PROVE ContenderInv(l)' OBVIOUS
  <2>1. TypeOK /\ TypeOK' BY TypeStep DEF ContenderInv
  <2> QED
    BY <2>1, RoleStep, LogStep, TermStep, TurnStep, CountStep, AppliedStep, ApplyStep
    DEF ContenderInv
<1> QED BY <1>1, <1>2

\* No state machine diverges while one server only ever stands: the services are
\* handed the same requests in the same order, none of them twice, in every
\* execution, one in which an entry is counted before it has its LogState
\* included.
THEOREM StateMachinesAgree ==
  ASSUME NEW l \in Server, OneStands(l)
  PROVE  Spec => []AppliedAgree
<1>1. ContenderInv(l) => AppliedAgree
  <2> SUFFICES ASSUME ContenderInv(l) PROVE AppliedAgree OBVIOUS
  <2>1. \A i \in Server :
          /\ applied[i] \in Seq(Label) /\ entries[i] \in Seq(Entry)
          /\ Len(applied[i]) \in Nat /\ Len(entries[l]) \in Nat
    BY LenProperties DEF ContenderInv, TypeOK, ServerTypeOK
  <2>2. \A i \in Server : Handed(applied[i], entries[l])
    BY <2>1, HandedLonger DEF ContenderInv, ApplyInv, LogInv
  <2>3. ASSUME NEW i \in Server, NEW j \in Server
        PROVE  Comparable(applied[i], applied[j])
    <3>1. CASE Len(applied[i]) <= Len(applied[j])
      <4>1. Stands(applied[i], 0, applied[j]) BY <2>1, <2>2, <3>1 DEF Stands, Handed
      <4> QED BY <2>1, <4>1, StandsIsPrefix DEF Comparable
    <3>2. CASE Len(applied[j]) <= Len(applied[i])
      <4>1. Stands(applied[j], 0, applied[i]) BY <2>1, <2>2, <3>2 DEF Stands, Handed
      <4> QED BY <2>1, <4>1, StandsIsPrefix DEF Comparable
    <3> QED BY <2>1, <3>1, <3>2
  <2>4. ASSUME NEW i \in Server, NEW k \in 1..Len(applied[i]),
               NEW n \in 1..Len(applied[i]), applied[i][k] = applied[i][n]
        PROVE  k = n
    <3>1. applied[i][k] = entries[l][k].req /\ applied[i][n] = entries[l][n].req
      BY <2>2 DEF Handed
    <3>2. k \in 1..Len(entries[l]) /\ n \in 1..Len(entries[l])
      <4>1. Len(applied[i]) <= Len(entries[l]) BY <2>2 DEF Handed
      <4> QED BY <2>1, <4>1
    <3>3. entries[l][k].req = entries[l][n].req BY <2>4, <3>1
    <3>4. Distinct(entries[l]) BY DEF ContenderInv, ApplyInv
    <3> QED BY <3>2, <3>3, <3>4 DEF Distinct
  <2> QED BY <2>3, <2>4 DEF AppliedAgree
<1> QED BY <1>1, ContenderInductive, PTL DEF Spec

-----------------------------------------------------------------------------
(***************************************************************************)
(* The cluster is one log: what ReplicatedLog calls the log is that of l.   *)
(***************************************************************************)

\* If all logs e are parts of that of l, the longest is that of l.
LEMMA LongestIsOurs ==
  ASSUME NEW e, \A i \in Server : e[i] \in Seq(Entry), NEW l \in Server,
         \A i \in Server : Stands(e[i], 0, e[l])
  PROVE  e[CHOOSE i \in Server : \A j \in Server : Len(e[j]) <= Len(e[i])] = e[l]
<1> DEFINE i == CHOOSE i \in Server : \A j \in Server : Len(e[j]) <= Len(e[i])
<1>1. \A j \in Server : Len(e[j]) <= Len(e[l])
  <2> SUFFICES ASSUME NEW j \in Server PROVE Len(e[j]) <= Len(e[l])
    OBVIOUS
  <2>1. Len(e[j]) \in Nat /\ 0 + Len(e[j]) <= Len(e[l])
    BY LenProperties DEF Stands
  <2> QED BY <2>1
<1>2. i \in Server /\ Len(e[l]) <= Len(e[i]) BY <1>1
<1> HIDE DEF i
<1>3. /\ Len(e[i]) = Len(e[l]) /\ Len(e[l]) \in Nat
      /\ \A k \in 1..Len(e[i]) : e[i][k] = e[l][k]
  BY <1>1, <1>2, LenProperties DEF Stands
<1>4. e[i] = e[l] BY <1>2, <1>3, SeqEqual
<1> QED BY <1>4 DEF i

\* What a service was handed are the first labels of the log.
LEMMA HandedLabels ==
  ASSUME NEW s \in Seq(Label), NEW t \in Seq(Entry), Handed(s, t)
  PROVE  /\ Labels(t) \in Seq(Label) /\ Len(Labels(t)) = Len(t)
         /\ Len(s) \in 0..Len(t) /\ s = SubSeq(Labels(t), 1, Len(s))
<1>1. Len(s) \in Nat /\ Len(t) \in Nat /\ Len(s) <= Len(t)
  BY LenProperties DEF Handed
<1>2. \A k \in 1..Len(t) : t[k].req \in Label
  <2>1. \A k \in 1..Len(t) : t[k] \in Entry BY ElementOfSeq
  <2> QED BY <2>1 DEF Entry
<1>3. /\ Labels(t) \in Seq(Label) /\ Len(Labels(t)) = Len(t)
      /\ \A k \in 1..Len(t) : Labels(t)[k] = t[k].req
  BY <1>1, <1>2 DEF Labels
<1> DEFINE u == Labels(t)
<1> HIDE DEF u
<1>4. /\ SubSeq(u, 1, Len(s)) \in Seq(Label) /\ Len(SubSeq(u, 1, Len(s))) = Len(s)
      /\ \A k \in 1..Len(s) : SubSeq(u, 1, Len(s))[k] = u[k]
  BY <1>1, <1>3 DEF u
<1>5. \A k \in 1..Len(s) : s[k] = SubSeq(u, 1, Len(s))[k]
  BY <1>1, <1>3, <1>4 DEF u, Handed
<1>6. s = SubSeq(u, 1, Len(s)) BY <1>4, <1>5, SeqEqual
<1> QED BY <1>1, <1>3, <1>6 DEF u

\* No service but that of i is handed anything, and from i nothing is taken back.
HandsOver(i) ==
  /\ Len(applied[i]) <= Len(applied'[i])
  /\ \A j \in Server \ {i} : applied'[j] = applied[j]

\* As whenever applyReadyEntries runs.
LEMMA AppliesMore ==
  ASSUME TypeOK, CommittedIsApplied, CommittedIsApplied', NEW i \in Server,
         NEW log, NEW c \in Nat, ApplyReadyEntries(i, log, c)
  PROVE  HandsOver(i)
<1>1. /\ lastApplied'[i] = lastApplied[i] + Ready(i, c) /\ lastApplied[i] \in Nat
      /\ \A j \in Server \ {i} : applied'[j] = applied[j]
  BY DEF ApplyReadyEntries, TypeOK, ServerTypeOK
<1>2. Ready(i, c) \in Nat BY <1>1 DEF Ready
<1>3. Len(applied[i]) = lastApplied[i] /\ Len(applied'[i]) = lastApplied'[i]
  BY DEF CommittedIsApplied
<1> QED BY <1>1, <1>2, <1>3 DEF HandsOver

\* A follower's handlers hand over, and leave the log of l alone.
LEMMA ServeHandsOver ==
  ASSUME NEW l \in Server, ContenderInv(l), ContenderInv(l)',
         \/ \E m \in voteReqs : ServeRequestVote(m)
         \/ \E m \in appendReqs : ServeAppendEntries(m)
  PROVE  entries'[l] = entries[l] /\ \E i \in Server : HandsOver(i)
<1> USE DEF ContenderInv
<1>1. ASSUME NEW m \in voteReqs, ServeRequestVote(m)
      PROVE  entries'[l] = entries[l] /\ HandsOver(m.to)
  <2>1. m.to \in Server /\ commitIdx[m.to] \in Nat
    BY DEF TypeOK, ServerTypeOK, RequestVoteMessage
  <2>2. CASE identity[m.to] = "Down"
    BY <1>1, <2>1, <2>2
    DEF ServeRequestVote, RPCRequestVote, serverVars, logVars, applyVars, HandsOver,
        CommittedIsApplied
  <2>3. CASE identity[m.to] # "Down"
    <3>1. /\ entries' = entries
          /\ ApplyReadyEntries(m.to, entries[m.to], commitIdx[m.to])
      BY <1>1, <2>3 DEF ServeRequestVote, RPCRequestVote, logVars
    <3> QED BY <2>1, <3>1, AppliesMore
  <2> QED BY <2>2, <2>3
<1>2. ASSUME NEW m \in appendReqs, ServeAppendEntries(m)
      PROVE  entries'[l] = entries[l] /\ HandsOver(m.to)
  <2> DEFINE i == m.to
             log == IF Accepts(i, m) THEN Merge(entries[i], m) ELSE entries[i]
             commit == IF Accepts(i, m) THEN CommitAfter(i, m, Len(log))
                                        ELSE commitIdx[i]
  <2>1. i \in Server /\ i # l
    BY DEF RoleInv, CallsAreOf, TypeOK, AppendEntriesMessage
  <2>2. CASE identity[i] = "Down" \/ IgnoresAppend(i, m)
    BY <1>2, <2>1, <2>2
    DEF ServeAppendEntries, RPCAppendEntries, serverVars, logVars, applyVars, HandsOver,
        CommittedIsApplied
  <2>3. CASE ~(identity[i] = "Down" \/ IgnoresAppend(i, m))
    <3>1. /\ entries' = [entries EXCEPT ![i] = log]
          /\ commitIdx' = [commitIdx EXCEPT ![i] = commit]
          /\ ApplyReadyEntries(i, log, commit)
      BY <1>2, <2>3 DEF ServeAppendEntries, RPCAppendEntries
    <3> HIDE DEF log, commit, i
    <3>2. entries'[l] = entries[l] BY <2>1, <3>1 DEF TypeOK, ServerTypeOK
    <3>3. commit \in Nat
      <4>1. commitIdx'[i] = commit BY <2>1, <3>1 DEF TypeOK, ServerTypeOK
      <4> QED BY <2>1, <4>1 DEF TypeOK, ServerTypeOK
    <3>4. HandsOver(i) BY <2>1, <3>1, <3>3, AppliesMore
    <3> QED BY <3>2, <3>4 DEF i
  <2> QED BY <2>2, <2>3
<1>3. \A m \in voteReqs : m.to \in Server BY DEF TypeOK, RequestVoteMessage
<1>4. \A m \in appendReqs : m.to \in Server BY DEF TypeOK, AppendEntriesMessage
<1> QED BY <1>1, <1>2, <1>3, <1>4

\* A step logs a request, which was not logged, or it hands over, or neither.
LEMMA LogsOrHandsOver ==
  ASSUME NEW l \in Server, ContenderInv(l), ContenderInv(l)', [Next]_vars
  PROVE  \/ /\ applied' = applied
            /\ \E req \in Request :
                 /\ Unlogged(entries[l], req)
                 /\ entries'[l] =
                      Append(entries[l], [term |-> currentTerm[l], req |-> req])
         \/ entries'[l] = entries[l] /\ \E i \in Server : HandsOver(i)
<1> USE DEF serverVars, logVars, applyVars
<1>1. applied' = applied => HandsOver(l)
  BY LenProperties DEF HandsOver, ContenderInv, TypeOK, ServerTypeOK
<1>2. CASE \/ \E m \in voteReqs : ServeRequestVote(m)
           \/ \E m \in appendReqs : ServeAppendEntries(m)
  BY <1>2, ServeHandsOver
<1>3. ASSUME NEW r \in appendReplies, TakeAppendSuccess(r)
      PROVE  entries' = entries /\ \E i \in Server : HandsOver(i)
  <2>1. r.from \in Server /\ commitIdx[r.from] \in Nat
    BY DEF ContenderInv, TypeOK, ServerTypeOK, AppendReply
  <2>2. PICK c \in {commitIdx[r.from]} \cup Counted(r.from, r) :
          ApplyReadyEntries(r.from, entries[r.from], c)
    BY <1>3 DEF TakeAppendSuccess
  <2>3. c \in Nat BY <2>1, <2>2 DEF Counted
  <2>4. HandsOver(r.from) BY <2>1, <2>2, <2>3, AppliesMore DEF ContenderInv
  <2> QED BY <1>3, <2>1, <2>4 DEF TakeAppendSuccess
<1>4. ASSUME NEW i \in Server, NEW req \in Request, AddLog(i, req)
      PROVE  /\ applied' = applied
             /\ \/ entries' = entries
                \/ /\ Unlogged(entries[l], req)
                   /\ entries'[l] =
                        Append(entries[l], [term |-> currentTerm[l], req |-> req])
  <2>1. i = l BY <1>4 DEF AddLog, ContenderInv, RoleInv, Follows
  <2> QED BY <1>4, <2>1 DEF AddLog, ContenderInv, TypeOK, ServerTypeOK
<1>5. CASE /\ ~(\E m \in voteReqs : ServeRequestVote(m))
           /\ ~(\E m \in appendReqs : ServeAppendEntries(m))
           /\ ~(\E r \in appendReplies : TakeAppendSuccess(r))
           /\ ~(\E i \in Server, req \in Request : AddLog(i, req))
  <2>1. ASSUME NEW i \in Server, Transform(i) PROVE UNCHANGED <<entries, applied>>
    BY <2>1 DEF Transform, BecomeDown, BecomeFollower, BecomeLeader, BecomeCandidate,
                LeaveQuietly, Leave
  <2>2. ASSUME NEW r \in appendReplies, TakeAppendReply(r)
        PROVE  UNCHANGED <<entries, applied>>
    BY <1>5, <2>2 DEF TakeAppendReply, TakeAppendSuccessCrashes, TakeAppendGreaterTerm,
                      TakeAppendRejection, Abort
  <2>3. ASSUME \/ \E i \in Server :
                    \/ Expires(i) \/ NotifyTimeout(i)
                    \/ AddLogState(i) \/ Stop(i) \/ Stopped(i)
               \/ \E r \in voteReplies : TakeVoteReply(r)
               \/ \E i, j \in Server :
                    SendAppendEntries(i, j) \/ SendAppendEntriesThrows(i, j)
               \/ UNCHANGED vars
        PROVE  UNCHANGED <<entries, applied>>
    BY <2>3 DEF Expires, NotifyTimeout, AddLogState, Stop, Stopped, TakeVoteReply,
                SendAppendEntries, SendAppendEntriesThrows, Abort, vars
  <2>4. UNCHANGED <<entries, applied>> BY <1>5, <2>1, <2>2, <2>3 DEF Next
  <2> QED BY <1>1, <2>4
<1> QED BY <1>1, <1>2, <1>3, <1>4, <1>5

\* A request that is not in the log is not among its labels, and logging it adds
\* it to them.
LEMMA LabelsAppended ==
  ASSUME NEW t \in Seq(Entry), NEW e \in Entry
  PROVE  /\ Labels(t) \in Seq(Label) /\ Len(Labels(t)) = Len(t)
         /\ Labels(Append(t, e)) = Append(Labels(t), e.req)
<1>1. Len(t) \in Nat BY LenProperties
<1>2. \A k \in 1..Len(t) : t[k].req \in Label
  <2>1. \A k \in 1..Len(t) : t[k] \in Entry BY ElementOfSeq
  <2> QED BY <2>1 DEF Entry
<1>3. /\ Labels(t) \in Seq(Label) /\ Len(Labels(t)) = Len(t)
      /\ \A k \in 1..Len(t) : Labels(t)[k] = t[k].req
  BY <1>1, <1>2 DEF Labels
<1>4. /\ Append(t, e) \in Seq(Entry) /\ Len(Append(t, e)) = Len(t) + 1
      /\ \A k \in 1..Len(t) : Append(t, e)[k] = t[k]
      /\ Append(t, e)[Len(t) + 1] = e
  BY AppendProperties
<1> DEFINE u == Append(t, e)
<1> HIDE DEF u
<1>5. \A k \in 1..Len(u) : u[k].req \in Label
  <2>1. \A k \in 1..Len(u) : u[k] \in Entry BY <1>4, ElementOfSeq DEF u
  <2> QED BY <2>1 DEF Entry
<1>6. /\ Labels(u) \in Seq(Label) /\ Len(Labels(u)) = Len(t) + 1
      /\ \A k \in 1..(Len(t) + 1) : Labels(u)[k] = u[k].req
  BY <1>1, <1>4, <1>5 DEF Labels, u
<1>7. e.req \in Label BY DEF Entry
<1> DEFINE s == Labels(t)
           v == Labels(u)
<1> HIDE DEF s, v
<1>8. /\ Append(s, e.req) \in Seq(Label) /\ Len(Append(s, e.req)) = Len(t) + 1
      /\ \A k \in 1..Len(t) : Append(s, e.req)[k] = t[k].req
      /\ Append(s, e.req)[Len(t) + 1] = e.req
  BY <1>3, <1>7, AppendProperties DEF s
<1>9. \A k \in 1..Len(v) : v[k] = Append(s, e.req)[k]
  BY <1>1, <1>4, <1>6, <1>8 DEF u, v
<1>10. v = Append(s, e.req) BY <1>6, <1>8, <1>9, SeqEqual DEF v
<1> QED BY <1>3, <1>10 DEF s, u, v

\* While one server only ever stands the cluster is one replicated log: each
\* request is logged once and stays, and every service is handed the requests of
\* that log in order, whatever is lost, late, repeated or stopped.
THEOREM OneLogIsReplicated ==
  ASSUME NEW l \in Server, OneStands(l)
  PROVE  Spec => ImplementsReplicatedLog
<1> USE DEF Cluster!Logged
<1>1. ASSUME ContenderInv(l) PROVE LongestLog = entries[l]
  BY <1>1, LongestIsOurs DEF LongestLog, ContenderInv, TypeOK, ServerTypeOK, LogInv
<1>2. Init => Cluster!Init
  <2> SUFFICES ASSUME Init PROVE Cluster!Init
    OBVIOUS
  <2>1. entries[l] = <<>> /\ applied = [i \in Server |-> <<>>]
    BY DEF Init, InitServer
  <2>2. LongestLog = <<>> BY <1>1, <2>1, ContenderInductive
  <2>3. Labels(LongestLog) = <<>> BY <2>2 DEF Labels
  <2> QED BY <2>1, <2>3 DEF Cluster!Init
<1>3. ContenderInv(l) /\ [Next]_vars => [Cluster!Next]_(Cluster!vars)
  <2> SUFFICES ASSUME ContenderInv(l), [Next]_vars
               PROVE  Cluster!Next \/ UNCHANGED Cluster!vars
    OBVIOUS
  <2>1. ContenderInv(l)' BY ContenderInductive
  <2>2. LongestLog = entries[l] BY <1>1
  <2>3. LongestLog' = entries'[l]
    BY <2>1, LongestIsOurs DEF LongestLog, ContenderInv, TypeOK, ServerTypeOK, LogInv
  <2>4. /\ entries[l] \in Seq(Entry) /\ Len(entries[l]) \in Nat
        /\ applied \in [Server -> Seq(Label)] /\ applied' \in [Server -> Seq(Label)]
    BY <2>1, LenProperties DEF ContenderInv, TypeOK, ServerTypeOK
  <2>5. ASSUME NEW req \in Request, Unlogged(entries[l], req), applied' = applied,
               entries'[l] = Append(entries[l], [term |-> currentTerm[l], req |-> req])
        PROVE  Cluster!Log(req)
    <3> DEFINE e == [term |-> currentTerm[l], req |-> req]
    <3>1. e \in Entry /\ e.req = req
      BY DEF Entry, Label, ContenderInv, TypeOK, ServerTypeOK
    <3> HIDE DEF e
    <3>2. /\ Len(Labels(entries[l])) = Len(entries[l])
          /\ Labels(entries'[l]) = Append(Labels(entries[l]), req)
      <4>1. entries'[l] = Append(entries[l], e) BY <2>5 DEF e
      <4> QED BY <2>4, <3>1, <4>1, LabelsAppended
    <3>3. ASSUME NEW k \in 1..Len(entries[l]) PROVE Labels(entries[l])[k] # req
      <4>1. Labels(entries[l])[k] = entries[l][k].req BY DEF Labels
      <4>2. k \in 0..Len(entries[l]) BY <2>4
      <4> QED BY <2>5, <4>1, <4>2 DEF Unlogged, RequestAt
    <3> QED BY <2>2, <2>3, <2>5, <3>2, <3>3 DEF Cluster!Log
  <2>6. ASSUME entries'[l] = entries[l], NEW i \in Server, HandsOver(i)
        PROVE  Cluster!Hand(i) \/ UNCHANGED Cluster!vars
    <3>1. Handed(applied[i], entries[l]) /\ Handed(applied'[i], entries[l])
      <4>1. \A j \in Server : /\ entries[j] \in Seq(Entry) /\ entries'[j] \in Seq(Entry)
                              /\ Handed(applied[j], entries[j])
                              /\ Handed(applied'[j], entries'[j])
                              /\ Stands(entries[j], 0, entries[l])
                              /\ Stands(entries'[j], 0, entries'[l])
        BY <2>1 DEF ContenderInv, TypeOK, ServerTypeOK, ApplyInv, LogInv
      <4> QED BY <2>4, <2>6, <4>1, HandedLonger
    <3> DEFINE t == Labels(entries[l])
               n == Len(applied'[i])
    <3>2. /\ Len(t) = Len(entries[l]) /\ n \in 0..Len(entries[l])
          /\ Len(applied[i]) \in 0..Len(entries[l])
          /\ applied[i] = SubSeq(t, 1, Len(applied[i]))
          /\ applied'[i] = SubSeq(t, 1, n)
      BY <2>4, <3>1, HandedLabels
    <3>3. LongestLog' = LongestLog BY <2>2, <2>3, <2>6
    <3>4. applied' = [applied EXCEPT ![i] = applied'[i]] BY <2>4, <2>6 DEF HandsOver
    <3>5. CASE n = Len(applied[i])
      <4>1. applied' = applied BY <2>4, <3>2, <3>4, <3>5
      <4> QED BY <3>3, <4>1 DEF Cluster!vars
    <3>6. CASE n # Len(applied[i])
      <4>1. n \in (Len(applied[i]) + 1)..Len(t) BY <2>6, <3>2, <3>6 DEF HandsOver
      <4> QED BY <2>2, <3>2, <3>3, <3>4, <4>1 DEF Cluster!Hand
    <3> QED BY <3>5, <3>6
  <2> QED BY <2>1, <2>5, <2>6, LogsOrHandsOver DEF Cluster!Next
<1> QED BY <1>2, <1>3, ContenderInductive, PTL
        DEF Spec, ImplementsReplicatedLog, Cluster!Spec
=============================================================================
