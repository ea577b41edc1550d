----------------------------- MODULE Conversion -----------------------------
(***************************************************************************)
(* The messages of RpcDefs.h and LogEntry, and Conversion.cpp, which turns   *)
(* them into protobuf messages and back.  A Reply, a pair in the code, is a  *)
(* record.  A port has 16 bits here and 32 in protobuf.                      *)
(***************************************************************************)
EXTENDS RaftRpc

PortLimit == 65536

ServerId == [addr : Text, port : 0..(PortLimit - 1)]

LogEntry == [term : Nat, opName : Text, args : Text, prmIdx : Nat, srvId : ServerId]

AppendEntriesMessage ==
  [term : Nat, leaderId : ServerId, prevLogIdx : Nat, prevLogTerm : Nat,
   logEntries : Seq(LogEntry), commitIdx : Nat]

RequestVoteMessage ==
  [term : Nat, candidateId : ServerId, lastLogIdx : Nat, lastLogTerm : Nat]

AddLogMessage == [opName : Text, args : Text, prmIdx : Nat, srvId : ServerId]

Reply == [term : Nat, ans : BOOLEAN]

AddLogReply == [success : BOOLEAN, leaderId : ServerId]

-----------------------------------------------------------------------------
\* To protobuf.  Every field of the new message is set.

PbOfReply(reply) == [term |-> reply.term, ans |-> reply.ans]

PbOfServerId(id) == [addr |-> id.addr, port |-> id.port]

\* The bug of leaving the label of the request behind.
PbOfLogEntryUnlabelled(entry) ==
  [term |-> entry.term, opName |-> entry.opName, args |-> entry.args,
   prmIdx |-> entry.prmIdx, srvId |-> <<>>]

PbOfLogEntry(entry) ==
  [term |-> entry.term, opName |-> entry.opName, args |-> entry.args,
   prmIdx |-> entry.prmIdx, srvId |-> <<PbOfServerId(entry.srvId)>>]

PbOfAppendEntriesMessage(msg) ==
  [term |-> msg.term, leaderId |-> <<PbOfServerId(msg.leaderId)>>,
   prevLogIdx |-> msg.prevLogIdx, prevLogTerm |-> msg.prevLogTerm,
   logEntries |-> [k \in 1..Len(msg.logEntries) |-> PbOfLogEntry(msg.logEntries[k])],
   commitIdx |-> msg.commitIdx]

PbOfRequestVoteMessage(msg) ==
  [term |-> msg.term, candidateId |-> <<PbOfServerId(msg.candidateId)>>,
   lastLogIdx |-> msg.lastLogIdx, lastLogTerm |-> msg.lastLogTerm]

PbOfAddLogMessage(msg) ==
  [opName |-> msg.opName, args |-> msg.args, prmIdx |-> msg.prmIdx,
   srvId |-> <<PbOfServerId(msg.srvId)>>]

PbOfAddLogReply(reply) ==
  [success |-> reply.success, leaderId |-> <<PbOfServerId(reply.leaderId)>>]

-----------------------------------------------------------------------------
\* From protobuf

ReplyOfPb(reply) == [term |-> reply.term, ans |-> reply.ans]

ServerIdOfPb(id) == [addr |-> id.addr, port |-> id.port % PortLimit]

LogEntryOfPb(entry) ==
  [term |-> entry.term, opName |-> entry.opName, args |-> entry.args,
   prmIdx |-> entry.prmIdx, srvId |-> ServerIdOfPb(ServerIdIn(entry.srvId))]

AppendEntriesMessageOfPb(msg) ==
  [term |-> msg.term, leaderId |-> ServerIdOfPb(ServerIdIn(msg.leaderId)),
   prevLogIdx |-> msg.prevLogIdx, prevLogTerm |-> msg.prevLogTerm,
   logEntries |-> [k \in 1..Len(msg.logEntries) |-> LogEntryOfPb(msg.logEntries[k])],
   commitIdx |-> msg.commitIdx]

RequestVoteMessageOfPb(msg) ==
  [term |-> msg.term, candidateId |-> ServerIdOfPb(ServerIdIn(msg.candidateId)),
   lastLogIdx |-> msg.lastLogIdx, lastLogTerm |-> msg.lastLogTerm]

AddLogMessageOfPb(msg) ==
  [opName |-> msg.opName, args |-> msg.args, prmIdx |-> msg.prmIdx,
   srvId |-> ServerIdOfPb(ServerIdIn(msg.srvId))]

AddLogReplyOfPb(reply) ==
  [success |-> reply.success, leaderId |-> ServerIdOfPb(ServerIdIn(reply.leaderId))]
=============================================================================
