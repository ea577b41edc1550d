------------------------------ MODULE RaftDefs ------------------------------
(***************************************************************************)
(* The constants of the models of quintet and the pure operators that its  *)
(* RPC handlers compute with.  A log is the sequence of entries 1, 2, ...;  *)
(* entry 0, the empty LogEntry the code puts into every fresh log, is not   *)
(* stored: TermAt and RequestAt give its fields.                            *)
(***************************************************************************)
EXTENDS Integers, Sequences, FiniteSets

CONSTANTS
  Server,      \* ServerInfo::srvList
  Nil,         \* NullServerId, and the (NullServerId, 0) label of entry 0
  Request,     \* the (srvId, prmIdx) labels clients send with AddLog
  Calls,       \* bound, per server and request: AddLog calls a leader gets
  Stoppable,   \* the servers whose owner may call Raft::Stop
  TermLimit,   \* bound, per server: it does not stand for terms beyond this one
  MaxLate,     \* bound: abandoned requests, per kind, that may still arrive
  MaxEvents,   \* bound: no timeout while this many events are queued
  MaxCount     \* bound: no replica counter beyond this value

ASSUME ServerAssumption == IsFiniteSet(Server) /\ Nil \notin Server
ASSUME RoleAssumption   == 
  /\ Stoppable \subseteq Server
  /\ Calls \in [Server -> [Request -> Nat]]
ASSUME BoundAssumption  ==
  /\ TermLimit \in [Server -> Nat]
  /\ MaxLate \in Nat /\ MaxEvents \in Nat /\ MaxCount \in Nat

-----------------------------------------------------------------------------
\* ServerIdentityNo, without the debug-only Bogus
Identity == {"Down", "Follower", "Candidate", "Leader"}

\* Raft::Impl between AsyncRun and the end of the process: serving RPCs;
\* inside Stop, with the RPC server already shut down; Stop has returned;
\* ended by an uncaught exception or a wild read in one of its threads.
Phase == {"up", "draining", "stopped", "aborted"}

Label == Request \cup {Nil}

\* LogEntry: its term and the label that tells one request from another.
Entry == [term : Nat, req : Label]

\* An event of the transformation queue.  The code queues only the target;
\* term is the term it was triggered for, 0 for AsyncRun and Stop.
Event == [to : Identity, term : Nat]

\* The request messages; live says that the calling thread still waits.
RequestVoteMessage ==
  [from : Server, to : Server, term : Nat,
   lastLogIdx : Nat, lastLogTerm : Nat, live : BOOLEAN]
AppendEntriesMessage ==
  [from : Server, to : Server, term : Nat, prevLogIdx : Nat,
   prevLogTerm : Nat, logEntries : Seq(Entry), commitIdx : Nat,
   live : BOOLEAN]

\* A Reply on its way back, with what the calling thread remembers of its
\* message: the term of a RequestVote, the number of entries of an
\* AppendEntries.
VoteReply   == [from : Server, to : Server, sent : Nat, term : Nat, ok : BOOLEAN]
AppendReply == [from : Server, to : Server, sent : Nat, term : Nat, ok : BOOLEAN]

-----------------------------------------------------------------------------
\* More than half of the cluster.
Majority(n) == n > Cardinality(Server) \div 2

TermAt(log, k)    == IF k = 0 THEN 0 ELSE log[k].term

\* What a read of entry k yields; beyond the end, where a shrunk vector keeps
\* destroyed entries, the label of no request.
RequestAt(log, k) == IF k \in 1..Len(log) THEN log[k].req ELSE Nil

\* The candidate's log, given by its last index and term, is at least as new.
UpToDate(log, lastLogIdx, lastLogTerm) ==
  \/ TermAt(log, Len(log)) < lastLogTerm
  \/ TermAt(log, Len(log)) = lastLogTerm /\ Len(log) <= lastLogIdx

\* The receiver has the entry that the message builds on.
HasPrev(log, m) ==
  m.prevLogIdx <= Len(log) /\ TermAt(log, m.prevLogIdx) = m.prevLogTerm

\* Entry k of the message is in the log already, going by its term.
SameTerm(log, m, k) ==
  m.prevLogIdx + k <= Len(log) /\ log[m.prevLogIdx + k].term = m.logEntries[k].term

\* The merge loop gets past entry k of the message.
Skips(log, m, k) == \A n \in 1..k : SameTerm(log, m, n)

\* The bug of replacing the log even when the message holds nothing new.
MergeCutsAlways(log, m) ==
  SubSeq(log, 1, m.prevLogIdx) \o m.logEntries

\* Entries skipped are kept as they are; at the first conflict, or at the end
\* of the log, the rest of the log is cut off and the rest of the message put
\* in its place; a message that is all skipped changes nothing.
Merge(log, m) ==
  IF Skips(log, m, Len(m.logEntries))
  THEN log
  ELSE SubSeq(log, 1, m.prevLogIdx) \o
       [k \in 1..Len(m.logEntries) |->
          IF Skips(log, m, k) THEN log[m.prevLogIdx + k] ELSE m.logEntries[k]]
=============================================================================
