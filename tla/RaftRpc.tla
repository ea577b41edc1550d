------------------------------ MODULE RaftRpc ------------------------------
(***************************************************************************)
(* The messages of RaftRpc.proto, and the code that protoc and the gRPC     *)
(* plugin generated for them: accessors, construction and clearing,         *)
(* parsing, serializing and merging, and the names under which stub and     *)
(* service find the three methods.                                          *)
(*                                                                         *)
(* A message on the wire is, by tag, the sequence of the values written     *)
(* with that tag, which is a number and a wire type; the value of a field   *)
(* that holds a message is the wire of that message.  In which order fields *)
(* of different tags stand is left out: parsing deals with each tag alone.  *)
(* A field that holds one message, or none, is a sequence of at most one; a *)
(* repeated field is a sequence.                                            *)
(***************************************************************************)
EXTENDS Naturals, Sequences, SequencesExt

CONSTANTS
  Text,   \* the values of string fields
  Empty,  \* the empty string
  Utf8    \* the strings that are well-formed UTF-8

ASSUME TextAssumption == Utf8 \subseteq Text /\ Empty \in Utf8

Optional(S) == {s \in Seq(S) : Len(s) <= 1}

-----------------------------------------------------------------------------
\* The messages, with their accessors

PbReply == [term : Nat, ans : BOOLEAN]

PbServerId == [addr : Text, port : Nat]

PbLogEntry ==
  [term : Nat, opName : Text, args : Text, prmIdx : Nat, srvId : Optional(PbServerId)]

PbAppendEntriesMessage ==
  [term : Nat, leaderId : Optional(PbServerId), prevLogIdx : Nat, prevLogTerm : Nat,
   logEntries : Seq(PbLogEntry), commitIdx : Nat]

PbRequestVoteMessage ==
  [term : Nat, candidateId : Optional(PbServerId), lastLogIdx : Nat, lastLogTerm : Nat]

PbAddLogMessage ==
  [opName : Text, args : Text, prmIdx : Nat, srvId : Optional(PbServerId)]

PbAddLogReply == [success : BOOLEAN, leaderId : Optional(PbServerId)]

-----------------------------------------------------------------------------
\* A message that has just been constructed or cleared

NewPbReply == [term |-> 0, ans |-> FALSE]

NewPbServerId == [addr |-> Empty, port |-> 0]

NewPbLogEntry ==
  [term |-> 0, opName |-> Empty, args |-> Empty, prmIdx |-> 0, srvId |-> <<>>]

NewPbAppendEntriesMessage ==
  [term |-> 0, leaderId |-> <<>>, prevLogIdx |-> 0, prevLogTerm |-> 0,
   logEntries |-> <<>>, commitIdx |-> 0]

NewPbRequestVoteMessage ==
  [term |-> 0, candidateId |-> <<>>, lastLogIdx |-> 0, lastLogTerm |-> 0]

NewPbAddLogMessage ==
  [opName |-> Empty, args |-> Empty, prmIdx |-> 0, srvId |-> <<>>]

NewPbAddLogReply == [success |-> FALSE, leaderId |-> <<>>]

\* What reading a field of type PbServerId yields, and what mutable_... makes
\* of one that is not there: a fresh message.
ServerIdIn(field) == IF field = <<>> THEN NewPbServerId ELSE field[1]

-----------------------------------------------------------------------------
\* Tags

Varint(n) == <<n, "varint">>

Bytes(n) == <<n, "bytes">>

Tag == (1..6) \X {"varint", "bytes"}

-----------------------------------------------------------------------------
\* Serializing: zeros, empty strings and messages that are not there are left
\* out.  That a string is not UTF-8 is logged and no more.

Number(v) == IF v = 0 THEN <<>> ELSE <<v>>

Flag(b) == IF b THEN <<1>> ELSE <<>>

String(s) == IF s = Empty THEN <<>> ELSE <<s>>

WritePbReply(m) ==
  [t \in Tag |-> CASE t = Varint(1) -> Number(m.term)
                   [] t = Varint(2) -> Flag(m.ans)
                   [] OTHER         -> <<>>]

WritePbServerId(m) ==
  [t \in Tag |-> CASE t = Bytes(1)  -> String(m.addr)
                   [] t = Varint(2) -> Number(m.port)
                   [] OTHER         -> <<>>]

\* A field of type PbServerId.
ServerIdField(field) == [k \in 1..Len(field) |-> WritePbServerId(field[k])]

WritePbLogEntry(m) ==
  [t \in Tag |-> CASE t = Varint(1) -> Number(m.term)
                   [] t = Bytes(2)  -> String(m.opName)
                   [] t = Bytes(3)  -> String(m.args)
                   [] t = Varint(4) -> Number(m.prmIdx)
                   [] t = Bytes(5)  -> ServerIdField(m.srvId)
                   [] OTHER         -> <<>>]

WritePbAppendEntriesMessage(m) ==
  [t \in Tag |->
     CASE t = Varint(1) -> Number(m.term)
       [] t = Bytes(2)  -> ServerIdField(m.leaderId)
       [] t = Varint(3) -> Number(m.prevLogIdx)
       [] t = Varint(4) -> Number(m.prevLogTerm)
       [] t = Bytes(5)  -> [k \in 1..Len(m.logEntries) |-> WritePbLogEntry(m.logEntries[k])]
       [] t = Varint(6) -> Number(m.commitIdx)
       [] OTHER         -> <<>>]

WritePbRequestVoteMessage(m) ==
  [t \in Tag |-> CASE t = Varint(1) -> Number(m.term)
                   [] t = Bytes(2)  -> ServerIdField(m.candidateId)
                   [] t = Varint(3) -> Number(m.lastLogIdx)
                   [] t = Varint(4) -> Number(m.lastLogTerm)
                   [] OTHER         -> <<>>]

WritePbAddLogMessage(m) ==
  [t \in Tag |-> CASE t = Bytes(1)  -> String(m.opName)
                   [] t = Bytes(2)  -> String(m.args)
                   [] t = Varint(3) -> Number(m.prmIdx)
                   [] t = Bytes(4)  -> ServerIdField(m.srvId)
                   [] OTHER         -> <<>>]

WritePbAddLogReply(m) ==
  [t \in Tag |-> CASE t = Varint(1) -> Flag(m.success)
                   [] t = Bytes(2)  -> ServerIdField(m.leaderId)
                   [] OTHER         -> <<>>]

-----------------------------------------------------------------------------
\* Parsing into a message.  Of several fields of one tag the last one counts,
\* several that hold messages are merged, one of another tag is skipped.  A
\* string that is not UTF-8 fails the parse.

LastOr(values, old) == IF values = <<>> THEN old ELSE values[Len(values)]

NumberAt(w, n, old) == LastOr(w[Varint(n)], old)

FlagAt(w, n, old) == IF w[Varint(n)] = <<>> THEN old ELSE LastOr(w[Varint(n)], 0) # 0

StringAt(w, n, old) == LastOr(w[Bytes(n)], old)

Utf8At(w, n) == \A k \in 1..Len(w[Bytes(n)]) : w[Bytes(n)][k] \in Utf8

ReadPbReply(m, w) == [term |-> NumberAt(w, 1, m.term), ans |-> FlagAt(w, 2, m.ans)]

ReadPbServerId(m, w) ==
  [addr |-> StringAt(w, 1, m.addr), port |-> NumberAt(w, 2, m.port)]

ParsesPbServerId(w) == Utf8At(w, 1)

ServerIdAt(w, n, old) ==
  LET wires  == w[Bytes(n)]
      merged == [t \in Tag |-> FlattenSeq([k \in 1..Len(wires) |-> wires[k][t]])]
  IN  IF wires = <<>> THEN old ELSE <<ReadPbServerId(ServerIdIn(old), merged)>>

ServerIdParsesAt(w, n) ==
  \A k \in 1..Len(w[Bytes(n)]) : ParsesPbServerId(w[Bytes(n)][k])

ReadPbLogEntry(m, w) ==
  [term |-> NumberAt(w, 1, m.term), opName |-> StringAt(w, 2, m.opName),
   args |-> StringAt(w, 3, m.args), prmIdx |-> NumberAt(w, 4, m.prmIdx),
   srvId |-> ServerIdAt(w, 5, m.srvId)]

ParsesPbLogEntry(w) == Utf8At(w, 2) /\ Utf8At(w, 3) /\ ServerIdParsesAt(w, 5)

ReadPbAppendEntriesMessage(m, w) ==
  LET wires == w[Bytes(5)] IN
  [term |-> NumberAt(w, 1, m.term), leaderId |-> ServerIdAt(w, 2, m.leaderId),
   prevLogIdx |-> NumberAt(w, 3, m.prevLogIdx),
   prevLogTerm |-> NumberAt(w, 4, m.prevLogTerm),
   logEntries |-> m.logEntries \o
     [k \in 1..Len(wires) |-> ReadPbLogEntry(NewPbLogEntry, wires[k])],
   commitIdx |-> NumberAt(w, 6, m.commitIdx)]

ParsesPbAppendEntriesMessage(w) ==
  /\ ServerIdParsesAt(w, 2)
  /\ \A k \in 1..Len(w[Bytes(5)]) : ParsesPbLogEntry(w[Bytes(5)][k])

ReadPbRequestVoteMessage(m, w) ==
  [term |-> NumberAt(w, 1, m.term), candidateId |-> ServerIdAt(w, 2, m.candidateId),
   lastLogIdx |-> NumberAt(w, 3, m.lastLogIdx),
   lastLogTerm |-> NumberAt(w, 4, m.lastLogTerm)]

ReadPbAddLogMessage(m, w) ==
  [opName |-> StringAt(w, 1, m.opName), args |-> StringAt(w, 2, m.args),
   prmIdx |-> NumberAt(w, 3, m.prmIdx), srvId |-> ServerIdAt(w, 4, m.srvId)]

\* The bug of declaring the arguments as bytes here and not in PbLogEntry.
ParsesPbAddLogMessageLax(w) == Utf8At(w, 1) /\ ServerIdParsesAt(w, 4)

ParsesPbAddLogMessage(w) == Utf8At(w, 1) /\ Utf8At(w, 2) /\ ServerIdParsesAt(w, 4)

ReadPbAddLogReply(m, w) ==
  [success |-> FlagAt(w, 1, m.success), leaderId |-> ServerIdAt(w, 2, m.leaderId)]

-----------------------------------------------------------------------------
\* Merging and copying of the replies: a field of from counts if it is set.

MergePbReply(m, from) ==
  [term |-> IF from.term # 0 THEN from.term ELSE m.term, ans |-> m.ans \/ from.ans]

\* CopyFrom clears the message first.
CopyPbReply(from) == MergePbReply(NewPbReply, from)

MergePbServerId(m, from) ==
  [addr |-> IF from.addr # Empty THEN from.addr ELSE m.addr,
   port |-> IF from.port # 0 THEN from.port ELSE m.port]

MergePbAddLogReply(m, from) ==
  [success |-> m.success \/ from.success,
   leaderId |-> IF from.leaderId = <<>> THEN m.leaderId
                ELSE <<MergePbServerId(ServerIdIn(m.leaderId), from.leaderId[1])>>]

CopyPbAddLogReply(from) == MergePbAddLogReply(NewPbAddLogReply, from)

-----------------------------------------------------------------------------
\* Stub and service

MethodNames ==
  <<"/quintet.rpc.RaftRpc/AddLog", "/quintet.rpc.RaftRpc/AppendEntries",
    "/quintet.rpc.RaftRpc/RequestVote">>

\* The name under which the stub calls each method.
StubName ==
  [AddLog |-> MethodNames[1], AppendEntries |-> MethodNames[2],
   RequestVote |-> MethodNames[3]]

\* The methods that the service has added, by name.
Service ==
  {[name |-> MethodNames[1], calls |-> "AddLog"],
   [name |-> MethodNames[2], calls |-> "AppendEntries"],
   [name |-> MethodNames[3], calls |-> "RequestVote"]}

Method == DOMAIN StubName

\* The method of the service that a call through the stub reaches.
Reached(method) == (CHOOSE s \in Service : s.name = StubName[method]).calls
=============================================================================
