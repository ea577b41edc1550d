--------------------------- MODULE RpcClientProofs ---------------------------
(***************************************************************************)
(* For any messages and answers and any number of calls: what is converted, *)
(* written, parsed and converted back is what it was, and so a client        *)
(* implements RemoteCall.                                                    *)
(***************************************************************************)
EXTENDS RpcClient, SequenceTheorems, TLAPS

-----------------------------------------------------------------------------
\* Fields

LEMMA Tags ==
  /\ \A n \in 1..6 : Varint(n) \in Tag /\ Bytes(n) \in Tag
  /\ \A n, p \in 1..6 : /\ Varint(n) = Varint(p) <=> n = p
                        /\ Bytes(n) = Bytes(p) <=> n = p
                        /\ Varint(n) # Bytes(p)
BY DEF Varint, Bytes, Tag

\* A number that is read is the one that was written, 0 included.
LEMMA NumberBack == ASSUME NEW v PROVE LastOr(Number(v), 0) = v
BY DEF LastOr, Number

LEMMA FlagBack ==
  ASSUME NEW b \in BOOLEAN
  PROVE  (IF Flag(b) = <<>> THEN FALSE ELSE LastOr(Flag(b), 0) # 0) = b
<1>1. CASE b = TRUE
  <2>1. Flag(b) = <<1>> BY <1>1 DEF Flag
  <2>2. LastOr(<<1>>, 0) = 1 BY DEF LastOr
  <2>3. Flag(b) # <<>> /\ LastOr(Flag(b), 0) # 0 BY <2>1, <2>2
  <2>4. (LastOr(Flag(b), 0) # 0) = TRUE BY <2>3
  <2>5. (IF Flag(b) = <<>> THEN FALSE ELSE LastOr(Flag(b), 0) # 0)
          = (LastOr(Flag(b), 0) # 0)
    BY <2>3
  <2> QED BY <1>1, <2>4, <2>5
<1>2. CASE b = FALSE
  <2>1. Flag(b) = <<>> BY <1>2 DEF Flag
  <2> QED BY <1>2, <2>1
<1> QED BY <1>1, <1>2

LEMMA StringBack == ASSUME NEW s PROVE LastOr(String(s), Empty) = s
BY DEF LastOr, String

\* A string is well-formed UTF-8 on the wire if and only if it was so before.
LEMMA StringUtf8 ==
  ASSUME NEW s
  PROVE  (\A k \in 1..Len(String(s)) : String(s)[k] \in Utf8) <=> s \in Utf8
BY TextAssumption DEF String

\* A single message is merged with nothing.
LEMMA FlattenOne == ASSUME NEW x PROVE FlattenSeq(<<x>>) = x
<1> DEFINE s == <<x>>
           F(f) == [i \in 1..Len(s) |-> IF i = 1 THEN s[i] ELSE f[i-1] \o s[i]]
           flat == CHOOSE f : f = F(f)
           g == [i \in 1..1 |-> x]
<1>1. Len(s) = 1 /\ s[1] = x OBVIOUS
<1>2. g = F(g) BY <1>1
<1>3. flat = F(flat) BY <1>2
<1>4. flat[1] = x BY <1>1, <1>3
<1>5. FlattenSeq(s) = flat[Len(s)] BY <1>1 DEF FlattenSeq
<1> QED BY <1>1, <1>4, <1>5

-----------------------------------------------------------------------------
\* Messages.  What is written and read into a new message is what it was.

LEMMA ReplyBack ==
  ASSUME NEW m \in PbReply
  PROVE  ReadPbReply(NewPbReply, WritePbReply(m)) = m
<1> DEFINE w == WritePbReply(m)
<1>1. w[Varint(1)] = Number(m.term) /\ w[Varint(2)] = Flag(m.ans)
  BY Tags DEF WritePbReply
<1>2. m.ans \in BOOLEAN /\ m = [term |-> m.term, ans |-> m.ans] BY DEF PbReply
<1>3. NumberAt(w, 1, 0) = m.term BY <1>1, NumberBack DEF NumberAt
<1>4. FlagAt(w, 2, FALSE) = m.ans BY <1>1, <1>2, FlagBack DEF FlagAt
<1> QED BY <1>2, <1>3, <1>4 DEF ReadPbReply, NewPbReply

LEMMA ServerIdBack ==
  ASSUME NEW m \in PbServerId
  PROVE  ReadPbServerId(NewPbServerId, WritePbServerId(m)) = m
<1> DEFINE w == WritePbServerId(m)
<1>1. w[Bytes(1)] = String(m.addr) /\ w[Varint(2)] = Number(m.port)
  BY Tags DEF WritePbServerId
<1>2. m = [addr |-> m.addr, port |-> m.port] BY DEF PbServerId
<1>3. NumberAt(w, 2, 0) = m.port BY <1>1, NumberBack DEF NumberAt
<1>4. StringAt(w, 1, Empty) = m.addr BY <1>1, StringBack DEF StringAt
<1> QED BY <1>2, <1>3, <1>4 DEF ReadPbServerId, NewPbServerId

\* So is a field that holds a server's id; it parses if the address is UTF-8.
LEMMA ServerIdFieldBack ==
  ASSUME NEW id \in PbServerId, NEW w, NEW n, w[Bytes(n)] = ServerIdField(<<id>>)
  PROVE  /\ ServerIdAt(w, n, <<>>) = <<id>>
         /\ ServerIdParsesAt(w, n) <=> id.addr \in Utf8
<1> DEFINE v == WritePbServerId(id)
           s == ServerIdField(<<id>>)
           merged == [t \in Tag |-> FlattenSeq([k \in 1..Len(s) |-> s[k][t]])]
<1>1. s = <<v>>
  <2>1. Len(<<id>>) = 1 /\ <<id>>[1] = id OBVIOUS
  <2> QED BY <2>1 DEF ServerIdField
<1> HIDE DEF v, s
<1>2. Len(s) = 1 /\ s[1] = v /\ s # <<>> BY <1>1
<1>3. \A t \in Tag : [k \in 1..Len(s) |-> s[k][t]] = <<v[t]>> BY <1>2
<1>4. \A t \in Tag : merged[t] = v[t] BY <1>3, FlattenOne
<1>5. ReadPbServerId(NewPbServerId, merged) = id
  <2>1. merged[Bytes(1)] = v[Bytes(1)] /\ merged[Varint(2)] = v[Varint(2)]
    <3> HIDE DEF merged
    <3> QED BY <1>4, Tags
  <2>2. ReadPbServerId(NewPbServerId, merged) = ReadPbServerId(NewPbServerId, v)
    BY <2>1 DEF ReadPbServerId, StringAt, NumberAt
  <2> QED BY <2>2, ServerIdBack DEF v
<1>6. ServerIdAt(w, n, <<>>) = <<id>>
  BY <1>2, <1>5 DEF ServerIdAt, ServerIdIn, s
<1>7. ServerIdParsesAt(w, n) <=> ParsesPbServerId(v)
  BY <1>2 DEF ServerIdParsesAt, s
<1>8. v[Bytes(1)] = String(id.addr) BY Tags DEF WritePbServerId, v
<1>9. ParsesPbServerId(v) <=> id.addr \in Utf8
  BY <1>8, StringUtf8 DEF ParsesPbServerId, Utf8At
<1> QED BY <1>6, <1>7, <1>9

LEMMA LogEntryBack ==
  ASSUME NEW id \in PbServerId, NEW m \in PbLogEntry, m.srvId = <<id>>
  PROVE  /\ ReadPbLogEntry(NewPbLogEntry, WritePbLogEntry(m)) = m
         /\ ParsesPbLogEntry(WritePbLogEntry(m)) <=> {m.opName, m.args, id.addr} \subseteq Utf8
<1> DEFINE w == WritePbLogEntry(m)
<1>1. /\ w[Varint(1)] = Number(m.term) /\ w[Bytes(2)] = String(m.opName)
      /\ w[Bytes(3)] = String(m.args) /\ w[Varint(4)] = Number(m.prmIdx)
      /\ w[Bytes(5)] = ServerIdField(<<id>>)
  BY Tags DEF WritePbLogEntry
<1> HIDE DEF w
<1>2. m = [term |-> m.term, opName |-> m.opName, args |-> m.args,
           prmIdx |-> m.prmIdx, srvId |-> m.srvId]
  BY DEF PbLogEntry
<1>3. NumberAt(w, 1, 0) = m.term /\ NumberAt(w, 4, 0) = m.prmIdx
  BY <1>1, NumberBack DEF NumberAt
<1>4. StringAt(w, 2, Empty) = m.opName /\ StringAt(w, 3, Empty) = m.args
  BY <1>1, StringBack DEF StringAt
<1>5. ServerIdAt(w, 5, <<>>) = <<id>> /\ (ServerIdParsesAt(w, 5) <=> id.addr \in Utf8)
  BY <1>1, ServerIdFieldBack
<1>6. ReadPbLogEntry(NewPbLogEntry, w) = m
  BY <1>2, <1>3, <1>4, <1>5 DEF ReadPbLogEntry, NewPbLogEntry
<1>7. (Utf8At(w, 2) <=> m.opName \in Utf8) /\ (Utf8At(w, 3) <=> m.args \in Utf8)
  BY <1>1, StringUtf8 DEF Utf8At
<1> QED BY <1>5, <1>6, <1>7 DEF ParsesPbLogEntry, w

\* A message that was built by Conversion.cpp has all the messages it may hold.
LEMMA AppendEntriesBack ==
  ASSUME NEW id \in PbServerId, NEW m \in PbAppendEntriesMessage, m.leaderId = <<id>>,
         \A k \in 1..Len(m.logEntries) :
           \E i \in PbServerId : m.logEntries[k].srvId = <<i>>
  PROVE  LET w == WritePbAppendEntriesMessage(m) IN
         /\ ReadPbAppendEntriesMessage(NewPbAppendEntriesMessage, w) = m
         /\ /\ id.addr \in Utf8
            /\ \A k \in 1..Len(m.logEntries) :
                 LET e == m.logEntries[k]
                 IN  {e.opName, e.args, e.srvId[1].addr} \subseteq Utf8
            => ParsesPbAppendEntriesMessage(w)
<1> DEFINE w == WritePbAppendEntriesMessage(m)
           es == m.logEntries
           wires == [k \in 1..Len(es) |-> WritePbLogEntry(es[k])]
<1>1. /\ w[Varint(1)] = Number(m.term) /\ w[Bytes(2)] = ServerIdField(<<id>>)
      /\ w[Varint(3)] = Number(m.prevLogIdx) /\ w[Varint(4)] = Number(m.prevLogTerm)
      /\ w[Bytes(5)] = wires /\ w[Varint(6)] = Number(m.commitIdx)
  BY Tags DEF WritePbAppendEntriesMessage
<1> HIDE DEF w
<1>2. m = [term |-> m.term, leaderId |-> m.leaderId, prevLogIdx |-> m.prevLogIdx,
           prevLogTerm |-> m.prevLogTerm, logEntries |-> es, commitIdx |-> m.commitIdx]
  BY DEF PbAppendEntriesMessage
<1>3. /\ NumberAt(w, 1, 0) = m.term /\ NumberAt(w, 3, 0) = m.prevLogIdx
      /\ NumberAt(w, 4, 0) = m.prevLogTerm /\ NumberAt(w, 6, 0) = m.commitIdx
  BY <1>1, NumberBack DEF NumberAt
<1>4. ServerIdAt(w, 2, <<>>) = <<id>> /\ (ServerIdParsesAt(w, 2) <=> id.addr \in Utf8)
  BY <1>1, ServerIdFieldBack
<1>5. es \in Seq(PbLogEntry) /\ Len(es) \in Nat /\ DOMAIN es = 1..Len(es)
  BY LenProperties DEF PbAppendEntriesMessage
<1> HIDE DEF es
<1>6. Len(wires) = Len(es) /\ \A k \in 1..Len(es) : wires[k] = WritePbLogEntry(es[k])
  BY <1>5
<1>7. ASSUME NEW k \in 1..Len(es)
      PROVE  /\ ReadPbLogEntry(NewPbLogEntry, wires[k]) = es[k]
             /\ ParsesPbLogEntry(wires[k]) <=>
                  {es[k].opName, es[k].args, es[k].srvId[1].addr} \subseteq Utf8
  <2>1. PICK i \in PbServerId : es[k].srvId = <<i>> BY DEF es
  <2>2. es[k] \in PbLogEntry BY <1>5
  <2>3. es[k].srvId[1] = i BY <2>1
  <2> QED BY <1>6, <2>1, <2>2, <2>3, LogEntryBack
<1> HIDE DEF wires
<1>8. <<>> \o [k \in 1..Len(wires) |-> ReadPbLogEntry(NewPbLogEntry, wires[k])] = es
  <2> DEFINE rs == [k \in 1..Len(wires) |-> ReadPbLogEntry(NewPbLogEntry, wires[k])]
  <2>1. rs = es BY <1>5, <1>6, <1>7
  <2> QED BY <1>5, <2>1, ConcatEmptySeq
<1>9. ReadPbAppendEntriesMessage(NewPbAppendEntriesMessage, w) = m
  BY <1>1, <1>2, <1>3, <1>4, <1>8
     DEF ReadPbAppendEntriesMessage, NewPbAppendEntriesMessage
<1>10. /\ id.addr \in Utf8
       /\ \A k \in 1..Len(es) : {es[k].opName, es[k].args, es[k].srvId[1].addr} \subseteq Utf8
       => ParsesPbAppendEntriesMessage(w)
  BY <1>1, <1>4, <1>6, <1>7 DEF ParsesPbAppendEntriesMessage
<1> QED BY <1>9, <1>10 DEF es, w

LEMMA RequestVoteBack ==
  ASSUME NEW id \in PbServerId, NEW m \in PbRequestVoteMessage, m.candidateId = <<id>>
  PROVE  LET w == WritePbRequestVoteMessage(m) IN
         /\ ReadPbRequestVoteMessage(NewPbRequestVoteMessage, w) = m
         /\ ServerIdParsesAt(w, 2) <=> id.addr \in Utf8
<1> DEFINE w == WritePbRequestVoteMessage(m)
<1>1. /\ w[Varint(1)] = Number(m.term) /\ w[Bytes(2)] = ServerIdField(<<id>>)
      /\ w[Varint(3)] = Number(m.lastLogIdx) /\ w[Varint(4)] = Number(m.lastLogTerm)
  BY Tags DEF WritePbRequestVoteMessage
<1> HIDE DEF w
<1>2. m = [term |-> m.term, candidateId |-> m.candidateId, lastLogIdx |-> m.lastLogIdx,
           lastLogTerm |-> m.lastLogTerm]
  BY DEF PbRequestVoteMessage
<1>3. /\ NumberAt(w, 1, 0) = m.term /\ NumberAt(w, 3, 0) = m.lastLogIdx
      /\ NumberAt(w, 4, 0) = m.lastLogTerm
  BY <1>1, NumberBack DEF NumberAt
<1>4. ServerIdAt(w, 2, <<>>) = <<id>> /\ (ServerIdParsesAt(w, 2) <=> id.addr \in Utf8)
  BY <1>1, ServerIdFieldBack
<1> QED BY <1>2, <1>3, <1>4 DEF ReadPbRequestVoteMessage, NewPbRequestVoteMessage, w

LEMMA AddLogBack ==
  ASSUME NEW id \in PbServerId, NEW m \in PbAddLogMessage, m.srvId = <<id>>
  PROVE  LET w == WritePbAddLogMessage(m) IN
         /\ ReadPbAddLogMessage(NewPbAddLogMessage, w) = m
         /\ ParsesPbAddLogMessage(w) <=> {m.opName, m.args, id.addr} \subseteq Utf8
<1> DEFINE w == WritePbAddLogMessage(m)
<1>1. /\ w[Bytes(1)] = String(m.opName) /\ w[Bytes(2)] = String(m.args)
      /\ w[Varint(3)] = Number(m.prmIdx) /\ w[Bytes(4)] = ServerIdField(<<id>>)
  BY Tags DEF WritePbAddLogMessage
<1> HIDE DEF w
<1>2. m = [opName |-> m.opName, args |-> m.args, prmIdx |-> m.prmIdx, srvId |-> m.srvId]
  BY DEF PbAddLogMessage
<1>3. NumberAt(w, 3, 0) = m.prmIdx BY <1>1, NumberBack DEF NumberAt
<1>4. StringAt(w, 1, Empty) = m.opName /\ StringAt(w, 2, Empty) = m.args
  BY <1>1, StringBack DEF StringAt
<1>5. ServerIdAt(w, 4, <<>>) = <<id>> /\ (ServerIdParsesAt(w, 4) <=> id.addr \in Utf8)
  BY <1>1, ServerIdFieldBack
<1>6. ReadPbAddLogMessage(NewPbAddLogMessage, w) = m
  BY <1>2, <1>3, <1>4, <1>5 DEF ReadPbAddLogMessage, NewPbAddLogMessage
<1>7. (Utf8At(w, 1) <=> m.opName \in Utf8) /\ (Utf8At(w, 2) <=> m.args \in Utf8)
  BY <1>1, StringUtf8 DEF Utf8At
<1> QED BY <1>5, <1>6, <1>7 DEF ParsesPbAddLogMessage, w

LEMMA AddLogReplyBack ==
  ASSUME NEW id \in PbServerId, NEW m \in PbAddLogReply, m.leaderId = <<id>>
  PROVE  ReadPbAddLogReply(NewPbAddLogReply, WritePbAddLogReply(m)) = m
<1> DEFINE w == WritePbAddLogReply(m)
<1>1. w[Varint(1)] = Flag(m.success) /\ w[Bytes(2)] = ServerIdField(<<id>>)
  BY Tags DEF WritePbAddLogReply
<1> HIDE DEF w
<1>2. m.success \in BOOLEAN /\ m = [success |-> m.success, leaderId |-> m.leaderId]
  BY DEF PbAddLogReply
<1>3. FlagAt(w, 1, FALSE) = m.success BY <1>1, <1>2, FlagBack DEF FlagAt
<1>4. ServerIdAt(w, 2, <<>>) = <<id>> BY <1>1, ServerIdFieldBack
<1> QED BY <1>2, <1>3, <1>4 DEF ReadPbAddLogReply, NewPbAddLogReply, w

-----------------------------------------------------------------------------
\* Conversions.  What is converted to protobuf and back is what it was.

\* A port has 16 bits, and narrowing leaves it alone.
LEMMA PortPositive == PortLimit \in Nat \ {0}
BY DEF PortLimit

LEMMA ModSmall ==
  ASSUME NEW n \in Nat \ {0}, NEW q \in 0..(n - 1)
  PROVE  q \in Nat /\ q % n = q
BY SMTT(20)

LEMMA PortFits ==
  ASSUME NEW p \in 0..(PortLimit - 1)
  PROVE  p \in Nat /\ p % PortLimit = p
BY PortPositive, ModSmall

LEMMA ServerIdConverted ==
  ASSUME NEW id \in ServerId
  PROVE  /\ PbOfServerId(id) \in PbServerId
         /\ PbOfServerId(id).addr = id.addr
         /\ ServerIdOfPb(ServerIdIn(<<PbOfServerId(id)>>)) = id
<1>1. id.addr \in Text /\ id.port \in 0..(PortLimit - 1) BY DEF ServerId
<1>2. PbOfServerId(id) = [addr |-> id.addr, port |-> id.port]
  BY DEF PbOfServerId
<1>3. id = [addr |-> id.addr, port |-> id.port] BY DEF ServerId
<1>4. id.port \in Nat /\ id.port % PortLimit = id.port BY <1>1, PortFits
<1>5. ServerIdIn(<<PbOfServerId(id)>>) = PbOfServerId(id) BY DEF ServerIdIn
<1> QED BY <1>1, <1>2, <1>3, <1>4, <1>5 DEF PbServerId, ServerIdOfPb

LEMMA LogEntryConverted ==
  ASSUME NEW e \in LogEntry
  PROVE  /\ PbOfLogEntry(e) \in PbLogEntry
         /\ PbOfLogEntry(e).srvId = <<PbOfServerId(e.srvId)>>
         /\ PbOfLogEntry(e).opName = e.opName /\ PbOfLogEntry(e).args = e.args
         /\ LogEntryOfPb(PbOfLogEntry(e)) = e
<1> DEFINE id == PbOfServerId(e.srvId)
<1>1. /\ e.term \in Nat /\ e.opName \in Text /\ e.args \in Text /\ e.prmIdx \in Nat
      /\ e.srvId \in ServerId
      /\ e = [term |-> e.term, opName |-> e.opName, args |-> e.args, prmIdx |-> e.prmIdx,
              srvId |-> e.srvId]
  BY DEF LogEntry
<1>2. PbOfLogEntry(e) = [term |-> e.term, opName |-> e.opName, args |-> e.args,
                         prmIdx |-> e.prmIdx, srvId |-> <<id>>]
  BY DEF PbOfLogEntry
<1>3. id \in PbServerId /\ ServerIdOfPb(ServerIdIn(<<id>>)) = e.srvId
  BY <1>1, ServerIdConverted
<1> HIDE DEF id
<1>4. <<id>> \in Optional(PbServerId) BY <1>3 DEF Optional
<1> QED BY <1>1, <1>2, <1>3, <1>4 DEF PbLogEntry, LogEntryOfPb, id

\* An entry is parsed if and only if its texts are UTF-8.
LEMMA LogEntryParses ==
  ASSUME NEW e \in LogEntry
  PROVE  ParsesPbLogEntry(WritePbLogEntry(PbOfLogEntry(e)))
           <=> {e.opName, e.args, e.srvId.addr} \subseteq Utf8
<1>1. e.srvId \in ServerId BY DEF LogEntry
<1>2. PbOfServerId(e.srvId) \in PbServerId /\ PbOfServerId(e.srvId).addr = e.srvId.addr
  BY <1>1, ServerIdConverted
<1> QED BY <1>2, LogEntryConverted, LogEntryBack

\* The texts of a message.
LEMMA TextsOf ==
  ASSUME NEW m
  PROVE  /\ method = "AppendEntries" =>
              (Texts(m) \subseteq Utf8 =>
                 /\ m.leaderId.addr \in Utf8
                 /\ \A k \in DOMAIN m.logEntries :
                      LET e == m.logEntries[k]
                      IN  {e.opName, e.args, e.srvId.addr} \subseteq Utf8)
         /\ method = "RequestVote" => Texts(m) = {m.candidateId.addr}
         /\ method = "AddLog" => Texts(m) = {m.opName, m.args, m.srvId.addr}
BY DEF Texts, ToSet

-----------------------------------------------------------------------------
\* By method: a message arrives as it was sent, and is refused for its text alone

Arrives(m, msg) ==
  /\ RequestOf(m, msg) \in PbRequest(m)
  /\ MessageIn(m, WireOf(m, RequestOf(m, msg))) = msg

LEMMA AppendEntriesArrive ==
  ASSUME NEW msg \in AppendEntriesMessage
  PROVE  /\ Arrives("AppendEntries", msg)
         /\ /\ msg.leaderId.addr \in Utf8
            /\ \A k \in DOMAIN msg.logEntries :
                 LET e == msg.logEntries[k]
                 IN  {e.opName, e.args, e.srvId.addr} \subseteq Utf8
            => Parses("AppendEntries", WireOf("AppendEntries", RequestOf("AppendEntries", msg)))
<1> DEFINE id == PbOfServerId(msg.leaderId)
           es == msg.logEntries
           pbs == [k \in 1..Len(es) |-> PbOfLogEntry(es[k])]
           pb == PbOfAppendEntriesMessage(msg)
           w == WritePbAppendEntriesMessage(pb)
<1>1. /\ msg.term \in Nat /\ msg.leaderId \in ServerId /\ msg.prevLogIdx \in Nat
      /\ msg.prevLogTerm \in Nat /\ es \in Seq(LogEntry) /\ msg.commitIdx \in Nat
      /\ msg = [term |-> msg.term, leaderId |-> msg.leaderId, prevLogIdx |-> msg.prevLogIdx,
                prevLogTerm |-> msg.prevLogTerm, logEntries |-> es,
                commitIdx |-> msg.commitIdx]
  BY DEF AppendEntriesMessage
<1>2. pb = [term |-> msg.term, leaderId |-> <<id>>, prevLogIdx |-> msg.prevLogIdx,
            prevLogTerm |-> msg.prevLogTerm, logEntries |-> pbs,
            commitIdx |-> msg.commitIdx]
  BY DEF PbOfAppendEntriesMessage
<1>3. id \in PbServerId /\ id.addr = msg.leaderId.addr
      /\ ServerIdOfPb(ServerIdIn(<<id>>)) = msg.leaderId
  BY <1>1, ServerIdConverted
<1>4. Len(es) \in Nat /\ DOMAIN es = 1..Len(es) /\ \A k \in 1..Len(es) : es[k] \in LogEntry
  BY <1>1, LenProperties, ElementOfSeq
<1> HIDE DEF id, pb, es
<1>5. \A k \in 1..Len(es) : PbOfLogEntry(es[k]) \in PbLogEntry BY <1>4, LogEntryConverted
<1>6. /\ pbs \in Seq(PbLogEntry) /\ Len(pbs) = Len(es)
      /\ \A k \in 1..Len(es) : pbs[k] = PbOfLogEntry(es[k])
  BY <1>4, <1>5
<1> HIDE DEF pbs
<1>7. <<id>> \in Optional(PbServerId) BY <1>3 DEF Optional
<1>8. pb \in PbAppendEntriesMessage
  BY <1>1, <1>2, <1>6, <1>7 DEF PbAppendEntriesMessage
<1>9. ASSUME NEW k \in 1..Len(es)
      PROVE  /\ PbOfServerId(es[k].srvId) \in PbServerId
             /\ pbs[k].srvId = <<PbOfServerId(es[k].srvId)>>
             /\ pbs[k].srvId[1].addr = es[k].srvId.addr
             /\ pbs[k].opName = es[k].opName /\ pbs[k].args = es[k].args
             /\ LogEntryOfPb(pbs[k]) = es[k]
  <2>1. es[k] \in LogEntry /\ es[k].srvId \in ServerId BY <1>4 DEF LogEntry
  <2>2. /\ PbOfServerId(es[k].srvId) \in PbServerId
        /\ PbOfServerId(es[k].srvId).addr = es[k].srvId.addr
    BY <2>1, ServerIdConverted
  <2> QED BY <1>6, <2>1, <2>2, LogEntryConverted
<1>10. \A k \in 1..Len(pb.logEntries) : \E i \in PbServerId : pb.logEntries[k].srvId = <<i>>
  BY <1>2, <1>6, <1>9
<1>11. pb.leaderId = <<id>> BY <1>2
<1>12. /\ ReadPbAppendEntriesMessage(NewPbAppendEntriesMessage, w) = pb
       /\ /\ id.addr \in Utf8
          /\ \A k \in 1..Len(pb.logEntries) :
               LET e == pb.logEntries[k]
               IN  {e.opName, e.args, e.srvId[1].addr} \subseteq Utf8
          => ParsesPbAppendEntriesMessage(w)
  BY <1>3, <1>8, <1>10, <1>11, AppendEntriesBack
<1> HIDE DEF w
<1>13. AppendEntriesMessageOfPb(pb) = msg
  <2>1. [k \in 1..Len(pb.logEntries) |-> LogEntryOfPb(pb.logEntries[k])] = es
    BY <1>1, <1>2, <1>4, <1>6, <1>9
  <2> QED BY <1>1, <1>2, <1>3, <2>1 DEF AppendEntriesMessageOfPb
<1>14. WireOf("AppendEntries", RequestOf("AppendEntries", msg)) = w
  BY DEF WireOf, RequestOf, w, pb
<1>15. Arrives("AppendEntries", msg)
  BY <1>8, <1>12, <1>13, <1>14 DEF Arrives, MessageIn, RequestOf, PbRequest, pb
<1>16. /\ msg.leaderId.addr \in Utf8
       /\ \A k \in DOMAIN es :
            {es[k].opName, es[k].args, es[k].srvId.addr} \subseteq Utf8
       => ParsesPbAppendEntriesMessage(w)
  BY <1>2, <1>3, <1>4, <1>6, <1>9, <1>12
<1> QED BY <1>14, <1>15, <1>16 DEF Parses, es

LEMMA RequestVoteArrives ==
  ASSUME NEW msg \in RequestVoteMessage
  PROVE  /\ Arrives("RequestVote", msg)
         /\ Parses("RequestVote", WireOf("RequestVote", RequestOf("RequestVote", msg)))
              <=> msg.candidateId.addr \in Utf8
<1> DEFINE id == PbOfServerId(msg.candidateId)
           pb == PbOfRequestVoteMessage(msg)
<1>1. /\ msg.term \in Nat /\ msg.candidateId \in ServerId /\ msg.lastLogIdx \in Nat
      /\ msg.lastLogTerm \in Nat
      /\ msg = [term |-> msg.term, candidateId |-> msg.candidateId,
                lastLogIdx |-> msg.lastLogIdx, lastLogTerm |-> msg.lastLogTerm]
  BY DEF RequestVoteMessage
<1>2. pb = [term |-> msg.term, candidateId |-> <<id>>, lastLogIdx |-> msg.lastLogIdx,
            lastLogTerm |-> msg.lastLogTerm]
  BY DEF PbOfRequestVoteMessage
<1>3. /\ id \in PbServerId /\ id.addr = msg.candidateId.addr
      /\ ServerIdOfPb(ServerIdIn(<<id>>)) = msg.candidateId
  BY <1>1, ServerIdConverted
<1> HIDE DEF id, pb
<1>4. <<id>> \in Optional(PbServerId) BY <1>3 DEF Optional
<1>5. pb \in PbRequestVoteMessage /\ pb.candidateId = <<id>>
  BY <1>1, <1>2, <1>4 DEF PbRequestVoteMessage
<1>6. RequestVoteMessageOfPb(pb) = msg
  BY <1>1, <1>2, <1>3 DEF RequestVoteMessageOfPb
<1>7. RequestOf("RequestVote", msg) = pb BY DEF RequestOf, pb
<1>8. WireOf("RequestVote", pb) = WritePbRequestVoteMessage(pb) BY DEF WireOf
<1> QED BY <1>3, <1>5, <1>6, <1>7, <1>8, RequestVoteBack
        DEF Arrives, MessageIn, PbRequest, Parses

LEMMA AddLogArrives ==
  ASSUME NEW msg \in AddLogMessage
  PROVE  /\ Arrives("AddLog", msg)
         /\ Parses("AddLog", WireOf("AddLog", RequestOf("AddLog", msg)))
              <=> {msg.opName, msg.args, msg.srvId.addr} \subseteq Utf8
<1> DEFINE id == PbOfServerId(msg.srvId)
           pb == PbOfAddLogMessage(msg)
<1>1. /\ msg.opName \in Text /\ msg.args \in Text /\ msg.prmIdx \in Nat
      /\ msg.srvId \in ServerId
      /\ msg = [opName |-> msg.opName, args |-> msg.args, prmIdx |-> msg.prmIdx,
                srvId |-> msg.srvId]
  BY DEF AddLogMessage
<1>2. pb = [opName |-> msg.opName, args |-> msg.args, prmIdx |-> msg.prmIdx,
            srvId |-> <<id>>]
  BY DEF PbOfAddLogMessage
<1>3. /\ id \in PbServerId /\ id.addr = msg.srvId.addr
      /\ ServerIdOfPb(ServerIdIn(<<id>>)) = msg.srvId
  BY <1>1, ServerIdConverted
<1> HIDE DEF id, pb
<1>4. <<id>> \in Optional(PbServerId) BY <1>3 DEF Optional
<1>5. /\ pb \in PbAddLogMessage /\ pb.srvId = <<id>>
      /\ pb.opName = msg.opName /\ pb.args = msg.args
  BY <1>1, <1>2, <1>4 DEF PbAddLogMessage
<1>6. AddLogMessageOfPb(pb) = msg BY <1>1, <1>2, <1>3 DEF AddLogMessageOfPb
<1>7. RequestOf("AddLog", msg) = pb BY DEF RequestOf, pb
<1>8. WireOf("AddLog", pb) = WritePbAddLogMessage(pb) BY DEF WireOf
<1> QED BY <1>3, <1>5, <1>6, <1>7, <1>8, AddLogBack
        DEF Arrives, MessageIn, PbRequest, Parses

\* An answer comes back as it was given.
Answers(m) == IF m = "AddLog" THEN AddLogReply ELSE Reply

PbAnswer(m) == IF m = "AddLog" THEN PbAddLogReply ELSE PbReply

LEMMA AnswerArrives ==
  ASSUME NEW m, NEW a \in Answers(m)
  PROVE  /\ ReplyIn(m, ResponseOf(m, a)) \in PbAnswer(m)
         /\ ValueOf(m, ReplyIn(m, ResponseOf(m, a))) = a
<1>1. CASE m # "AddLog"
  <2> DEFINE pb == PbOfReply(a)
  <2>1. a \in Reply BY <1>1 DEF Answers
  <2>2. /\ a.term \in Nat /\ a.ans \in BOOLEAN
        /\ a = [term |-> a.term, ans |-> a.ans]
    BY <2>1 DEF Reply
  <2>3. pb = [term |-> a.term, ans |-> a.ans] BY DEF PbOfReply
  <2>4. pb \in PbReply BY <2>2, <2>3 DEF PbReply
  <2> HIDE DEF pb
  <2>5. CopyPbReply(pb) = pb
    <3>1. (FALSE \/ pb.ans) = pb.ans BY <2>4 DEF PbReply
    <3>2. (IF pb.term # 0 THEN pb.term ELSE 0) = pb.term OBVIOUS
    <3>3. pb = [term |-> pb.term, ans |-> pb.ans] BY <2>4 DEF PbReply
    <3> QED BY <3>1, <3>2, <3>3 DEF CopyPbReply, MergePbReply, NewPbReply
  <2>6. ReplyIn(m, ResponseOf(m, a)) = pb
    BY <1>1, <2>4, <2>5, ReplyBack DEF ReplyIn, ResponseOf, pb
  <2>7. ReplyOfPb(pb) = a BY <2>2, <2>3 DEF ReplyOfPb
  <2> QED BY <1>1, <2>4, <2>6, <2>7 DEF PbAnswer, ValueOf
<1>2. CASE m = "AddLog"
  <2> DEFINE pb == PbOfAddLogReply(a)
             id == PbOfServerId(a.leaderId)
  <2>1. a \in AddLogReply BY <1>2 DEF Answers
  <2>2. /\ a.success \in BOOLEAN /\ a.leaderId \in ServerId
        /\ a = [success |-> a.success, leaderId |-> a.leaderId]
    BY <2>1 DEF AddLogReply
  <2>3. pb = [success |-> a.success, leaderId |-> <<id>>] BY DEF PbOfAddLogReply
  <2>4. id \in PbServerId /\ ServerIdOfPb(ServerIdIn(<<id>>)) = a.leaderId
    BY <2>2, ServerIdConverted
  <2> HIDE DEF pb, id
  <2>5. <<id>> \in Optional(PbServerId) BY <2>4 DEF Optional
  <2>6. pb \in PbAddLogReply /\ pb.leaderId = <<id>>
    BY <2>2, <2>3, <2>5 DEF PbAddLogReply
  <2>7. CopyPbAddLogReply(pb) = pb
    <3>1. (FALSE \/ pb.success) = pb.success BY <2>6 DEF PbAddLogReply
    <3>2. MergePbServerId(ServerIdIn(<<>>), id) = id
      <4>1. id = [addr |-> id.addr, port |-> id.port] BY <2>4 DEF PbServerId
      <4>2. (IF id.addr # Empty THEN id.addr ELSE Empty) = id.addr OBVIOUS
      <4>3. (IF id.port # 0 THEN id.port ELSE 0) = id.port OBVIOUS
      <4> QED BY <4>1, <4>2, <4>3 DEF MergePbServerId, ServerIdIn, NewPbServerId
    <3>3. pb = [success |-> pb.success, leaderId |-> pb.leaderId]
      BY <2>6 DEF PbAddLogReply
    <3>4. pb.leaderId # <<>> /\ pb.leaderId[1] = id BY <2>6
    <3> QED BY <2>6, <3>1, <3>2, <3>3, <3>4
            DEF CopyPbAddLogReply, MergePbAddLogReply, NewPbAddLogReply
  <2>8. ReplyIn(m, ResponseOf(m, a)) = pb
    BY <1>2, <2>4, <2>6, <2>7, AddLogReplyBack DEF ReplyIn, ResponseOf, pb
  <2>9. AddLogReplyOfPb(pb) = a BY <2>2, <2>3, <2>4 DEF AddLogReplyOfPb
  <2> QED BY <1>2, <2>6, <2>8, <2>9 DEF PbAnswer, ValueOf
<1> QED BY <1>1, <1>2

\* A call reaches the method that was called.
LEMMA Reaches == \A m \in Method : Reached(m) = m
<1>1. Method = {"AddLog", "AppendEntries", "RequestVote"} BY DEF Method, StubName
<1>2. /\ StubName["AddLog"] = MethodNames[1] /\ StubName["AppendEntries"] = MethodNames[2]
      /\ StubName["RequestVote"] = MethodNames[3]
  BY DEF StubName
<1>3. /\ MethodNames[1] # MethodNames[2] /\ MethodNames[1] # MethodNames[3]
      /\ MethodNames[2] # MethodNames[3]
  BY DEF MethodNames
<1>4. \A m \in Method : \E s \in Service : s.name = StubName[m] /\ s.calls = m
  BY <1>1, <1>2 DEF Service
<1>5. \A m \in Method, s \in Service : s.name = StubName[m] => s.calls = m
  BY <1>1, <1>2, <1>3 DEF Service
<1> QED BY <1>4, <1>5 DEF Reached

-----------------------------------------------------------------------------
\* The invariant

CallRecord(m) ==
  [msg      : Message[m],
   request  : PbRequest(m),
   far      : {"sent", "answered", "refused"},
   response : {<<>>} \cup {ResponseOf(m, a) : a \in Answer[m]},
   given    : {<<>>} \cup {<<g>> : g \in [msg : Message[m], answer : Answer[m]]},
   event    : {"pending", "queued", "taken"},
   ok       : BOOLEAN,
   reply    : PbAnswer(m),
   promise  : {"open", "value", "exception"},
   value    : {<<>>} \cup Answer[m]]

\* What is known of a call: its request is its message converted, a handler has
\* answered if and only if the request parses, to the message itself; the reply
\* is the response parsed; and a value is the answer of the handler.
CallOk(m, c) ==
  /\ c.request = RequestOf(m, c.msg)
  /\ c.far = "sent" => c.given = <<>>
  /\ c.far = "refused" => c.given = <<>> /\ ~Parses(m, WireOf(m, c.request))
  /\ c.far = "answered" =>
       /\ Parses(m, WireOf(m, c.request))
       /\ \E a \in Answer[m] : /\ c.given = <<[msg |-> c.msg, answer |-> a]>>
                               /\ c.response = ResponseOf(m, a)
  /\ c.ok => /\ c.far = "answered" /\ c.event # "pending"
             /\ c.reply = ReplyIn(m, c.response)
  /\ c.promise # "open" => c.event = "taken"
  /\ c.promise = "value" => c.ok /\ c.value = c.given[1].answer

\* The types that TypeOK gives, and those of the calls, which are all right.
ClientTypes ==
  /\ method \in Method
  /\ thread \in {"ready", "waiting", "finished", "joining", "ended", "terminated"}
  /\ interrupted \in {"no", "asked", "met"}
  /\ run \in BOOLEAN /\ shutdown \in BOOLEAN
  /\ calls \in Seq(CallRecord(method))

CallsOk == \A k \in 1..Len(calls) : CallOk(method, calls[k])

\* An error is told as the last thing run does: whoever has met one and calls
\* again waits for what never comes.
RetryInv ==
  /\ retryTimes \in 0..1
  /\ thread = "waiting" => calls # <<>>
  /\ \A k \in 1..Len(calls) : calls[k].promise = "exception" => ~run
  /\ retryTimes = 1 => /\ ~run
                       /\ thread = "waiting" => calls[Len(calls)].promise = "open"

ClientInv == ClientTypes /\ CallsOk /\ RetryInv

LEMMA Delivered ==
  ASSUME NEW m \in Method, NEW msg \in Message[m]
  PROVE  Arrives(m, msg)
<1>1. m \in {"AddLog", "AppendEntries", "RequestVote"} BY DEF Method, StubName
<1>2. CASE m = "AppendEntries" BY <1>2, ClientBounds, AppendEntriesArrive
<1>3. CASE m = "RequestVote" BY <1>3, ClientBounds, RequestVoteArrives
<1>4. CASE m = "AddLog" BY <1>4, ClientBounds, AddLogArrives
<1> QED BY <1>1, <1>2, <1>3, <1>4

LEMMA AnswerTypes ==
  ASSUME NEW m \in Method, NEW a \in Answer[m]
  PROVE  a \in Answers(m)
<1>1. m \in {"AddLog", "AppendEntries", "RequestVote"} BY DEF Method, StubName
<1> QED BY <1>1, ClientBounds DEF Answers

\* A new call is all right.
LEMMA NewCallOk ==
  ASSUME method \in Method, NEW msg \in Message[method]
  PROVE  /\ NewCall(msg) \in CallRecord(method) /\ CallOk(method, NewCall(msg))
         /\ NewCall(msg).promise = "open"
<1>1. RequestOf(method, msg) \in PbRequest(method) BY Delivered DEF Arrives
<1>2. NewReply(method) \in PbAnswer(method)
  <2>1. NewPbReply \in PbReply BY DEF NewPbReply, PbReply
  <2>2. <<>> \in Optional(PbServerId) BY DEF Optional
  <2>3. NewPbAddLogReply \in PbAddLogReply BY <2>2 DEF NewPbAddLogReply, PbAddLogReply
  <2> QED BY <2>1, <2>3 DEF NewReply, PbAnswer
<1> QED BY <1>1, <1>2 DEF NewCall, CallRecord, CallOk

\* One call changes, to one that is all right, and the others do not.
LEMMA OneCall ==
  ASSUME ClientTypes, CallsOk, NEW k \in 1..Len(calls), NEW r \in CallRecord(method),
         CallOk(method, r), calls' = [calls EXCEPT ![k] = r], UNCHANGED method
  PROVE  /\ calls' \in Seq(CallRecord(method')) /\ CallsOk'
         /\ Len(calls') = Len(calls)
         /\ \A j \in 1..Len(calls) : calls'[j] = IF j = k THEN r ELSE calls[j]
<1>1. calls \in Seq(CallRecord(method)) BY DEF ClientTypes
<1>2. /\ calls' \in Seq(CallRecord(method)) /\ Len(calls') = Len(calls)
      /\ \A j \in 1..Len(calls) : calls'[j] = IF j = k THEN r ELSE calls[j]
  BY <1>1, ExceptSeq
<1> QED BY <1>2 DEF CallsOk

-----------------------------------------------------------------------------
\* The steps

\* A call without a promise kept or broken changes at the far end.
LEMMA FarStep ==
  ASSUME ClientInv, NEW k \in 1..Len(calls), NEW r \in CallRecord(method),
         CallOk(method, r), calls' = [calls EXCEPT ![k] = r],
         r.promise = calls[k].promise,
         UNCHANGED <<method, thread, retryTimes, interrupted, run, shutdown>>
  PROVE  ClientInv'
<1>1. /\ calls' \in Seq(CallRecord(method')) /\ CallsOk' /\ Len(calls') = Len(calls)
      /\ \A j \in 1..Len(calls) : calls'[j] = IF j = k THEN r ELSE calls[j]
  BY OneCall DEF ClientInv
<1>2. \A j \in 1..Len(calls) : calls'[j].promise = calls[j].promise BY <1>1
<1>3. calls \in Seq(CallRecord(method)) /\ Len(calls) \in Nat
  BY LenProperties DEF ClientInv, ClientTypes
<1>4. calls # <<>> => calls' # <<>> /\ Len(calls) \in 1..Len(calls)
  BY <1>1, <1>3, EmptySeq
<1>5. ClientTypes' BY <1>1 DEF ClientInv, ClientTypes
<1>6. RetryInv' BY <1>1, <1>2, <1>4 DEF ClientInv, RetryInv
<1> QED BY <1>1, <1>5, <1>6 DEF ClientInv

LEMMA HandleStep ==
  ASSUME ClientInv, NEW k \in 1..Len(calls), Handle(k)
  PROVE  ClientInv'
<1> DEFINE c == calls[k]
           w == WireOf(method, c.request)
<1>1. c \in CallRecord(method) /\ CallOk(method, c) /\ method \in Method
  BY ElementOfSeq DEF ClientInv, ClientTypes, CallsOk
<1>2. Reached(method) = method BY <1>1, Reaches
<1>3. MessageIn(method, w) = c.msg
  <2>1. c.msg \in Message[method] /\ c.request = RequestOf(method, c.msg)
    BY <1>1 DEF CallRecord, CallOk
  <2> QED BY <1>1, <2>1, Delivered DEF Arrives
<1>4. PICK a \in Answer[method] :
        calls' = [calls EXCEPT ![k] =
          [c EXCEPT !.far = "answered", !.response = ResponseOf(method, a),
                    !.given = <<[msg |-> MessageIn(method, w), answer |-> a]>>]]
  BY <1>2 DEF Handle
<1> DEFINE r == [c EXCEPT !.far = "answered", !.response = ResponseOf(method, a),
                          !.given = <<[msg |-> c.msg, answer |-> a]>>]
<1>5. calls' = [calls EXCEPT ![k] = r] BY <1>3, <1>4
<1>6. c.far = "sent" /\ Parses(method, w) BY <1>2 DEF Handle
<1>7. /\ r.far = "answered" /\ r.response = ResponseOf(method, a)
      /\ r.given = <<[msg |-> c.msg, answer |-> a]>> /\ r.request = c.request
      /\ r.msg = c.msg /\ r.event = c.event /\ r.ok = c.ok /\ r.promise = c.promise
      /\ r.reply = c.reply /\ r.value = c.value
  BY <1>1 DEF CallRecord
<1>8. r \in CallRecord(method)
  <2>1. c.msg \in Message[method] BY <1>1 DEF CallRecord
  <2> QED BY <1>1, <2>1 DEF CallRecord
<1> HIDE DEF c, w, r
<1>9. ~c.ok /\ c.promise # "value" BY <1>1, <1>6 DEF CallOk
<1>10. CallOk(method, r) BY <1>1, <1>6, <1>7, <1>9 DEF CallOk, w
<1>11. UNCHANGED <<method, thread, retryTimes, interrupted, run, shutdown>>
  BY DEF Handle
<1> QED BY <1>5, <1>7, <1>8, <1>10, <1>11, FarStep DEF c

LEMMA RefuseStep ==
  ASSUME ClientInv, NEW k \in 1..Len(calls), Refuse(k)
  PROVE  ClientInv'
<1> DEFINE c == calls[k]
           r == [c EXCEPT !.far = "refused"]
<1>1. c \in CallRecord(method) /\ CallOk(method, c) /\ method \in Method
  BY ElementOfSeq DEF ClientInv, ClientTypes, CallsOk
<1>2. c.far = "sent" /\ ~Parses(method, WireOf(method, c.request))
  BY <1>1, Reaches DEF Refuse
<1>3. calls' = [calls EXCEPT ![k] = r] BY DEF Refuse
<1>4. r \in CallRecord(method) /\ r.promise = c.promise BY <1>1 DEF CallRecord
<1>5. CallOk(method, r) BY <1>1, <1>2 DEF CallRecord, CallOk
<1>6. UNCHANGED <<method, thread, retryTimes, interrupted, run, shutdown>>
  BY DEF Refuse
<1> QED BY <1>3, <1>4, <1>5, <1>6, FarStep

LEMMA CompleteStep ==
  ASSUME ClientInv, NEW k \in 1..Len(calls), Complete(k)
  PROVE  ClientInv'
<1> DEFINE c == calls[k]
           r == [c EXCEPT !.event = "queued", !.ok = TRUE,
                          !.reply = ReplyIn(method, c.response)]
<1>1. c \in CallRecord(method) /\ CallOk(method, c) /\ method \in Method
  BY ElementOfSeq DEF ClientInv, ClientTypes, CallsOk
<1>2. c.far = "answered" /\ c.event = "pending" BY DEF Complete
<1>3. PICK a \in Answer[method] : c.response = ResponseOf(method, a)
  BY <1>1, <1>2 DEF CallOk
<1>4. ReplyIn(method, c.response) \in PbAnswer(method)
  BY <1>1, <1>3, AnswerTypes, AnswerArrives
<1>5. calls' = [calls EXCEPT ![k] = r] BY DEF Complete
<1>6. r \in CallRecord(method) /\ r.promise = c.promise BY <1>1, <1>4 DEF CallRecord
<1>7. CallOk(method, r) BY <1>1, <1>2 DEF CallRecord, CallOk
<1>8. UNCHANGED <<method, thread, retryTimes, interrupted, run, shutdown>>
  BY DEF Complete
<1> QED BY <1>5, <1>6, <1>7, <1>8, FarStep

LEMMA FailStep ==
  ASSUME ClientInv, NEW k \in 1..Len(calls), Fail(k)
  PROVE  ClientInv'
<1> DEFINE c == calls[k]
           r == [c EXCEPT !.event = "queued"]
<1>1. c \in CallRecord(method) /\ CallOk(method, c)
  BY ElementOfSeq DEF ClientInv, ClientTypes, CallsOk
<1>2. c.event = "pending" /\ calls' = [calls EXCEPT ![k] = r] BY DEF Fail
<1>3. r \in CallRecord(method) /\ r.promise = c.promise BY <1>1 DEF CallRecord
<1>4. CallOk(method, r) BY <1>1, <1>2 DEF CallRecord, CallOk
<1>5. UNCHANGED <<method, thread, retryTimes, interrupted, run, shutdown>> BY DEF Fail
<1> QED BY <1>2, <1>3, <1>4, <1>5, FarStep

\* run tells the answer of the handler; it has not met an error yet, so nobody has.
LEMMA TakeReplyStep ==
  ASSUME ClientInv, NEW k \in 1..Len(calls), TakeReply(k)
  PROVE  /\ ClientInv'
         /\ calls[k].promise = "open"
         /\ calls'[k].promise = "value" /\ calls'[k].value = calls[k].given[1].answer
<1> DEFINE c == calls[k]
           r == [c EXCEPT !.event = "taken", !.promise = "value",
                          !.value = ValueOf(method, c.reply)]
<1>1. c \in CallRecord(method) /\ CallOk(method, c) /\ method \in Method
  BY ElementOfSeq DEF ClientInv, ClientTypes, CallsOk
<1>2. c.ok /\ c.event = "queued" /\ run /\ calls' = [calls EXCEPT ![k] = r]
  BY DEF TakeReply
<1>3. PICK a \in Answer[method] :
        c.given = <<[msg |-> c.msg, answer |-> a]>> /\ c.response = ResponseOf(method, a)
  BY <1>1, <1>2 DEF CallOk
<1>4. ValueOf(method, c.reply) = a
  BY <1>1, <1>2, <1>3, AnswerTypes, AnswerArrives DEF CallOk
<1>5. r \in CallRecord(method) /\ r.promise = "value" /\ r.value = a
  BY <1>1, <1>4 DEF CallRecord
<1>6. c.given[1].answer = a BY <1>3
<1>7. CallOk(method, r) BY <1>1, <1>2, <1>4, <1>6 DEF CallRecord, CallOk
<1>8. UNCHANGED <<method, thread, retryTimes, interrupted, run, shutdown>>
  BY DEF TakeReply
<1>9. /\ calls' \in Seq(CallRecord(method')) /\ CallsOk' /\ Len(calls') = Len(calls)
      /\ \A j \in 1..Len(calls) : calls'[j] = IF j = k THEN r ELSE calls[j]
  BY <1>2, <1>5, <1>7, <1>8, OneCall DEF ClientInv
<1> HIDE DEF r
<1>10. calls' # <<>> BY <1>9, LenProperties, EmptySeq DEF ClientInv, ClientTypes
<1>11. ClientTypes' BY <1>8, <1>9 DEF ClientInv, ClientTypes
<1>12. RetryInv' BY <1>2, <1>5, <1>8, <1>9, <1>10 DEF ClientInv, RetryInv
<1>13. c.promise = "open" BY <1>1, <1>2 DEF CallRecord, CallOk
<1> QED BY <1>5, <1>6, <1>9, <1>11, <1>12, <1>13 DEF ClientInv

LEMMA TakeErrorStep ==
  ASSUME ClientInv, NEW k \in 1..Len(calls), TakeError(k)
  PROVE  ClientInv'
<1> DEFINE c == calls[k]
           r == [c EXCEPT !.event = "taken", !.promise = "exception"]
<1>1. c \in CallRecord(method) /\ CallOk(method, c)
  BY ElementOfSeq DEF ClientInv, ClientTypes, CallsOk
<1>2. ~c.ok /\ run /\ calls' = [calls EXCEPT ![k] = r] BY DEF TakeError
<1>3. r \in CallRecord(method) BY <1>1 DEF CallRecord
<1>4. CallOk(method, r) BY <1>1, <1>2 DEF CallRecord, CallOk
<1>5. ~run' /\ UNCHANGED <<method, thread, retryTimes, interrupted, shutdown>>
  BY DEF TakeError
<1>6. /\ calls' \in Seq(CallRecord(method')) /\ CallsOk' /\ Len(calls') = Len(calls)
      /\ \A j \in 1..Len(calls) : calls'[j] = IF j = k THEN r ELSE calls[j]
  BY <1>2, <1>3, <1>4, <1>5, OneCall DEF ClientInv
<1> HIDE DEF r
<1>7. calls' # <<>> BY <1>6, LenProperties, EmptySeq DEF ClientInv, ClientTypes
<1>8. ClientTypes' BY <1>5, <1>6 DEF ClientInv, ClientTypes, TakeError
<1>9. retryTimes # 1 BY <1>2 DEF ClientInv, RetryInv
<1>10. RetryInv' BY <1>5, <1>7, <1>9 DEF ClientInv, RetryInv
<1> QED BY <1>6, <1>8, <1>10 DEF ClientInv

\* A call more, for which nothing has come.
LEMMA CallStep ==
  ASSUME ClientInv, Call
  PROVE  /\ ClientInv'
         /\ \E msg \in Message[method] : calls' = Append(calls, NewCall(msg))
<1>1. PICK msg \in Message[method] : calls' = Append(calls, NewCall(msg)) BY DEF Call
<1>2. thread' = "waiting" /\ UNCHANGED <<method, retryTimes, interrupted, run, shutdown>>
  BY DEF Call
<1>3. calls \in Seq(CallRecord(method)) /\ method \in Method
  BY DEF ClientInv, ClientTypes
<1>4. /\ NewCall(msg) \in CallRecord(method) /\ CallOk(method, NewCall(msg))
      /\ NewCall(msg).promise = "open"
  BY <1>3, NewCallOk
<1>5. /\ calls' \in Seq(CallRecord(method)) /\ Len(calls') = Len(calls) + 1
      /\ calls'[Len(calls) + 1] = NewCall(msg) /\ Len(calls) \in Nat
      /\ \A j \in 1..Len(calls) : calls'[j] = calls[j]
  BY <1>1, <1>3, <1>4, AppendProperties, LenProperties
<1>6. ClientTypes' BY <1>2, <1>5 DEF ClientInv, ClientTypes
<1>7. CallsOk' BY <1>2, <1>4, <1>5 DEF ClientInv, CallsOk
<1>8. calls' # <<>> BY <1>5
<1>9. RetryInv' BY <1>2, <1>4, <1>5, <1>8 DEF ClientInv, RetryInv
<1> QED BY <1>1, <1>6, <1>7, <1>9 DEF ClientInv

\* An error was the last thing run told.
LEMMA GetErrorStep ==
  ASSUME ClientInv, GetError
  PROVE  ClientInv'
<1>1. /\ thread = "waiting" /\ calls[Len(calls)].promise = "exception"
      /\ thread' \in {"ready", "finished"} /\ retryTimes' \in {retryTimes, retryTimes + 1}
      /\ UNCHANGED <<method, interrupted, run, shutdown, calls>>
  BY DEF GetError
<1>2. Len(calls) \in 1..Len(calls)
  BY <1>1, LenProperties, EmptySeq DEF ClientInv, ClientTypes, RetryInv
<1>3. ~run BY <1>1, <1>2 DEF ClientInv, RetryInv
<1>4. retryTimes = 0 BY <1>1 DEF ClientInv, RetryInv
<1>5. ClientTypes' BY <1>1 DEF ClientInv, ClientTypes
<1>6. CallsOk' BY <1>1 DEF ClientInv, CallsOk
<1>7. RetryInv' BY <1>1, <1>3, <1>4 DEF ClientInv, RetryInv
<1> QED BY <1>5, <1>6, <1>7 DEF ClientInv

\* The other steps of the threads leave the calls and the count of errors alone.
Quiet ==
  \/ InterruptedBefore \/ InterruptedInCall \/ GetValue \/ GetError \/ Interrupt
  \/ Destroy \/ Joined \/ Terminate \/ Drained

LEMMA QuietStep ==
  ASSUME ClientInv, Quiet
  PROVE  ClientInv' /\ UNCHANGED <<method, calls>>
<1>1. CASE GetError BY <1>1, GetErrorStep DEF GetError
<1>2. CASE Quiet /\ ~GetError
  <2>1. /\ UNCHANGED <<method, calls, retryTimes>>
        /\ thread' \in {thread, "ready", "finished", "joining", "ended", "terminated"}
        /\ interrupted' \in {interrupted, "asked", "met"}
        /\ run' \in {run, FALSE} /\ shutdown' \in {shutdown, TRUE}
    BY <1>2 DEF Quiet, InterruptedBefore, InterruptedInCall, GetValue, Interrupt,
                Destroy, Joined, Terminate, Drained
  <2>2. ClientTypes' BY <2>1 DEF ClientInv, ClientTypes
  <2>3. CallsOk' BY <2>1 DEF ClientInv, CallsOk
  <2>4. thread' = "waiting" => thread = "waiting" BY <2>1
  <2>5. run' => run BY <2>1
  <2>6. RetryInv' BY <2>1, <2>4, <2>5 DEF ClientInv, RetryInv
  <2> QED BY <2>1, <2>2, <2>3, <2>6 DEF ClientInv
<1> QED BY <1>1, <1>2

LEMMA ClientNext == ClientInv /\ [Next]_vars => ClientInv'
<1> SUFFICES ASSUME ClientInv, [Next]_vars PROVE ClientInv'
  OBVIOUS
<1>1. CASE Call BY <1>1, CallStep
<1>2. CASE Quiet BY <1>2, QuietStep
<1>3. CASE \E k \in 1..Len(calls) : TakeReply(k) BY <1>3, TakeReplyStep
<1>4. CASE \E k \in 1..Len(calls) : TakeError(k) BY <1>4, TakeErrorStep
<1>5. CASE \E k \in 1..Len(calls) : Handle(k) BY <1>5, HandleStep
<1>6. CASE \E k \in 1..Len(calls) : Refuse(k) BY <1>6, RefuseStep
<1>7. CASE \E k \in 1..Len(calls) : Complete(k) BY <1>7, CompleteStep
<1>8. CASE \E k \in 1..Len(calls) : Fail(k) BY <1>8, FailStep
<1>9. CASE UNCHANGED vars
  BY <1>9 DEF vars, ClientInv, ClientTypes, CallsOk, RetryInv
<1> QED BY <1>1, <1>2, <1>3, <1>4, <1>5, <1>6, <1>7, <1>8, <1>9
        DEF Next, Caller, Take, Quiet

LEMMA ClientInvHolds == Spec => []ClientInv
<1>1. Init => ClientInv
  <2> SUFFICES ASSUME Init PROVE ClientInv
    OBVIOUS
  <2>1. calls = <<>> /\ calls \in Seq(CallRecord(method)) /\ Len(calls) = 0
    BY EmptySeq DEF Init
  <2>2. CallsOk BY <2>1 DEF CallsOk
  <2>3. ClientTypes BY <2>1 DEF Init, ClientTypes
  <2>4. RetryInv BY <2>1 DEF Init, RetryInv
  <2> QED BY <2>2, <2>3, <2>4 DEF ClientInv
<1> QED BY <1>1, ClientNext, PTL DEF Spec

\* The variables have their types, and tryAppendEntries never counts a second
\* error, so that what it does after the third is never done.
THEOREM ClientTypeCorrect == Spec => []TypeOK
<1>1. ClientInv => TypeOK
  <2> SUFFICES ASSUME ClientInv, NEW k \in 1..Len(calls)
               PROVE  /\ calls[k].request \in PbRequest(method)
                      /\ calls[k].far \in {"sent", "answered", "refused"}
                      /\ calls[k].event \in {"pending", "queued", "taken"}
                      /\ calls[k].reply \in PbAnswer(method)
                      /\ calls[k].promise \in {"open", "value", "exception"}
    BY DEF ClientInv, ClientTypes, RetryInv, TypeOK, PbAnswer
  <2>1. calls[k] \in CallRecord(method) BY ElementOfSeq DEF ClientInv, ClientTypes
  <2> QED BY <2>1 DEF CallRecord
<1> QED BY <1>1, ClientInvHolds, PTL

\* A request is refused for its text alone, and an entry made of a message that
\* addLog was handed is parsed by every follower.
THEOREM OnlyTextIsRefused == Spec => []LogStaysReplicable
<1>1. ClientInv => LogStaysReplicable
  <2> SUFFICES ASSUME ClientInv, NEW k \in 1..Len(calls)
               PROVE  /\ calls[k].far = "refused" => ~(Texts(calls[k].msg) \subseteq Utf8)
                      /\ method = "AddLog" /\ calls[k].far = "answered" =>
                           ParsesPbLogEntry(WritePbLogEntry(PbOfLogEntry(
                             EntryFor(calls[k].given[1].msg))))
    BY DEF LogStaysReplicable
  <2> DEFINE c == calls[k]
             msg == c.msg
             w == WireOf(method, RequestOf(method, msg))
  <2>1. method \in {"AddLog", "AppendEntries", "RequestVote"}
    BY DEF ClientInv, ClientTypes, Method, StubName
  <2>2. c \in CallRecord(method) /\ CallOk(method, c)
    BY ElementOfSeq DEF ClientInv, ClientTypes, CallsOk
  <2>3. msg \in Message[method] BY <2>2 DEF CallRecord
  <2>4. c.far = "refused" => ~Parses(method, w) BY <2>2 DEF CallOk
  <2> HIDE DEF c, w
  <2>5. ASSUME c.far = "answered" PROVE Parses(method, w) /\ c.given[1].msg = msg
    <3>1. PICK a \in Answer[method] : c.given = <<[msg |-> msg, answer |-> a]>>
      BY <2>2, <2>5 DEF CallOk
    <3>2. c.given[1].msg = msg BY <3>1
    <3> QED BY <2>2, <2>5, <3>2 DEF CallOk, w
  <2>6. CASE method = "AppendEntries"
    <3>1. msg \in AppendEntriesMessage BY <2>3, <2>6, ClientBounds
    <3>2. Texts(msg) \subseteq Utf8 =>
            /\ msg.leaderId.addr \in Utf8
            /\ \A n \in DOMAIN msg.logEntries :
                 LET e == msg.logEntries[n]
                 IN  {e.opName, e.args, e.srvId.addr} \subseteq Utf8
      BY <2>6, TextsOf
    <3>3. Texts(msg) \subseteq Utf8 => Parses(method, w)
      BY <2>6, <3>1, <3>2, AppendEntriesArrive DEF w
    <3> QED BY <2>4, <2>6, <3>3 DEF c
  <2>7. CASE method = "RequestVote"
    <3>1. msg \in RequestVoteMessage BY <2>3, <2>7, ClientBounds
    <3> QED BY <2>4, <2>7, <3>1, RequestVoteArrives, TextsOf DEF c, w
  <2>8. CASE method = "AddLog"
    <3>1. msg \in AddLogMessage BY <2>3, <2>8, ClientBounds
    <3>2. Parses(method, w) <=> {msg.opName, msg.args, msg.srvId.addr} \subseteq Utf8
      BY <2>8, <3>1, AddLogArrives DEF w
    <3>3. c.far = "refused" => ~(Texts(msg) \subseteq Utf8)
      BY <2>4, <2>8, <3>2, TextsOf
    <3>4. /\ EntryFor(msg) \in LogEntry
          /\ EntryFor(msg).opName = msg.opName /\ EntryFor(msg).args = msg.args
          /\ EntryFor(msg).srvId = msg.srvId
      BY <3>1 DEF EntryFor, LogEntry, AddLogMessage
    <3>5. c.far = "answered" =>
            ParsesPbLogEntry(WritePbLogEntry(PbOfLogEntry(EntryFor(msg))))
      BY <2>5, <3>2, <3>4, LogEntryParses
    <3> QED BY <2>5, <3>3, <3>5 DEF c
  <2> QED BY <2>1, <2>6, <2>7, <2>8
<1> QED BY <1>1, ClientInvHolds, PTL

-----------------------------------------------------------------------------
\* The refinement

Asked == [k \in 1..Len(calls) |-> calls[k].msg]

Given == [k \in 1..Len(calls) |-> calls[k].given]

Returned ==
  [k \in 1..Len(calls) |-> IF calls[k].promise = "value" THEN <<calls[k].value>> ELSE <<>>]

\* Another call of the same message changes what the handler got and what the caller
\* was told in one place.
LEMMA MappedOneCall ==
  ASSUME ClientInv, ClientInv', NEW k \in 1..Len(calls), NEW r,
         calls' = [calls EXCEPT ![k] = r], r.msg = calls[k].msg
  PROVE  /\ Asked' = Asked
         /\ Given' = [Given EXCEPT ![k] = r.given]
         /\ Returned' = [Returned EXCEPT ![k] =
                           IF r.promise = "value" THEN <<r.value>> ELSE <<>>]
         /\ Len(Asked) = Len(calls)
<1>1. calls \in Seq(CallRecord(method)) /\ calls' \in Seq(CallRecord(method'))
  BY DEF ClientInv, ClientTypes
<1>2. /\ Len(calls) \in Nat /\ Len(calls') = Len(calls)
      /\ \A j \in 1..Len(calls) : calls'[j] = IF j = k THEN r ELSE calls[j]
  <2>1. Len(calls) \in Nat /\ DOMAIN calls = 1..Len(calls) BY <1>1, LenProperties
  <2>2. DOMAIN calls' = DOMAIN calls BY <2>1
  <2>3. Len(calls') \in Nat /\ DOMAIN calls' = 1..Len(calls') BY <1>1, LenProperties
  <2>4. Len(calls') = Len(calls) BY <2>1, <2>2, <2>3
  <2> QED BY <2>1, <2>4
<1>3. Asked' = Asked BY <1>2 DEF Asked
<1>4. Given' = [Given EXCEPT ![k] = r.given]
  <2>1. Given' = [j \in 1..Len(calls) |-> calls'[j].given] BY <1>2 DEF Given
  <2>2. \A j \in 1..Len(calls) :
          calls'[j].given = IF j = k THEN r.given ELSE calls[j].given
    BY <1>2
  <2>3. Given' = [j \in 1..Len(calls) |-> IF j = k THEN r.given ELSE calls[j].given]
    BY <2>1, <2>2
  <2> QED BY <2>3 DEF Given
<1>5. Returned' = [Returned EXCEPT ![k] =
                     IF r.promise = "value" THEN <<r.value>> ELSE <<>>]
  <2> DEFINE V(c) == IF c.promise = "value" THEN <<c.value>> ELSE <<>>
  <2>1. Returned' = [j \in 1..Len(calls) |-> V(calls'[j])] BY <1>2 DEF Returned
  <2>2. \A j \in 1..Len(calls) : V(calls'[j]) = IF j = k THEN V(r) ELSE V(calls[j])
    BY <1>2
  <2>3. Returned = [j \in 1..Len(calls) |-> V(calls[j])] BY DEF Returned
  <2> HIDE DEF V
  <2>4. Returned' = [Returned EXCEPT ![k] = V(r)] BY <2>1, <2>2, <2>3
  <2> QED BY <2>4 DEF V
<1>6. Len(Asked) = Len(calls) BY <1>2 DEF Asked
<1> QED BY <1>3, <1>4, <1>5, <1>6

\* A step that leaves a call's message, and what came of it, is a stutter.
LEMMA MappedQuiet ==
  ASSUME ClientInv, ClientInv', NEW k \in 1..Len(calls), NEW r,
         calls' = [calls EXCEPT ![k] = r], r.msg = calls[k].msg,
         r.given = calls[k].given,
         r.promise = "value" <=> calls[k].promise = "value", r.value = calls[k].value
  PROVE  UNCHANGED <<Asked, Given, Returned>>
<1>1. Given[k] = calls[k].given BY DEF Given
<1>2. Returned[k] = IF r.promise = "value" THEN <<r.value>> ELSE <<>> BY DEF Returned
<1>3. [Given EXCEPT ![k] = Given[k]] = Given BY DEF Given
<1>4. [Returned EXCEPT ![k] = Returned[k]] = Returned BY DEF Returned
<1>5. /\ Asked' = Asked /\ Given' = [Given EXCEPT ![k] = r.given]
      /\ Returned' = [Returned EXCEPT ![k] =
                        IF r.promise = "value" THEN <<r.value>> ELSE <<>>]
  BY MappedOneCall
<1>6. Given' = Given BY <1>1, <1>3, <1>5
<1>7. Returned' = Returned BY <1>2, <1>4, <1>5
<1> QED BY <1>5, <1>6, <1>7

AllMessages == UNION {Message[m] : m \in Method}

AllAnswers == UNION {Answer[m] : m \in Method}

\* What calls are mapped to.
LEMMA MappedTypes ==
  ASSUME ClientInv
  PROVE  /\ Len(calls) \in Nat
         /\ Asked \in Seq(AllMessages) /\ Len(Asked) = Len(calls)
         /\ Len(Given) = Len(calls) /\ Len(Returned) = Len(calls)
         /\ method \in Method
         /\ \A k \in 1..Len(calls) :
              calls[k] \in CallRecord(method) /\ CallOk(method, calls[k])
<1>1. /\ calls \in Seq(CallRecord(method)) /\ Len(calls) \in Nat /\ method \in Method
  BY LenProperties DEF ClientInv, ClientTypes
<1>2. \A k \in 1..Len(calls) : calls[k] \in CallRecord(method) BY <1>1, ElementOfSeq
<1>3. \A k \in 1..Len(calls) : calls[k].msg \in AllMessages
  BY <1>1, <1>2 DEF CallRecord, AllMessages
<1> QED BY <1>1, <1>2, <1>3 DEF Asked, Given, Returned, ClientInv, CallsOk

\* asyncCall... asks.
LEMMA CallMapped ==
  ASSUME ClientInv, Call
  PROVE  /\ \E m \in AllMessages : Asked' = Append(Asked, m)
         /\ Given' = Append(Given, <<>>) /\ Returned' = Append(Returned, <<>>)
<1>1. PICK msg \in Message[method] : calls' = Append(calls, NewCall(msg)) BY CallStep
<1>2. calls \in Seq(CallRecord(method)) /\ method \in Method
  BY DEF ClientInv, ClientTypes
<1> DEFINE c == NewCall(msg)
           n == Len(calls)
<1>3. c.msg = msg /\ c.given = <<>> /\ c.promise = "open" BY DEF NewCall
<1>4. c \in CallRecord(method) BY <1>2, NewCallOk
<1> HIDE DEF c
<1>5. /\ n \in Nat /\ Len(calls') = n + 1 /\ calls'[n + 1] = c
      /\ \A j \in 1..n : calls'[j] = calls[j]
  BY <1>1, <1>2, <1>4, AppendProperties, LenProperties DEF c
<1> HIDE DEF n
<1>6. \A j \in 1..(n + 1) : j \in 1..n \/ j = n + 1 BY <1>5
<1>7. Asked' = Append(Asked, msg)
  <2>1. Asked' = [j \in 1..(n + 1) |-> IF j = n + 1 THEN msg ELSE calls[j].msg]
    BY <1>3, <1>5, <1>6 DEF Asked
  <2>2. Asked = [j \in 1..n |-> calls[j].msg] BY DEF Asked, n
  <2> QED BY <1>5, <2>1, <2>2
<1>8. Given' = Append(Given, <<>>)
  <2>1. Given' = [j \in 1..(n + 1) |-> IF j = n + 1 THEN <<>> ELSE calls[j].given]
    BY <1>3, <1>5, <1>6 DEF Given
  <2>2. Given = [j \in 1..n |-> calls[j].given] BY DEF Given, n
  <2> QED BY <1>5, <2>1, <2>2
<1>9. Returned' = Append(Returned, <<>>)
  <2> DEFINE V(d) == IF d.promise = "value" THEN <<d.value>> ELSE <<>>
  <2>1. V(c) = <<>> BY <1>3
  <2>2. Returned = [j \in 1..n |-> V(calls[j])] BY DEF Returned, n
  <2>3. Returned' = [j \in 1..(n + 1) |-> V(calls'[j])] BY <1>5 DEF Returned
  <2> HIDE DEF V
  <2>4. Returned' = [j \in 1..(n + 1) |-> IF j = n + 1 THEN <<>> ELSE V(calls[j])]
    BY <1>5, <1>6, <2>1, <2>3
  <2> QED BY <1>5, <2>2, <2>4
<1>10. msg \in AllMessages BY <1>2 DEF AllMessages
<1> QED BY <1>7, <1>8, <1>9, <1>10

\* The handler gives.
LEMMA HandleMapped ==
  ASSUME ClientInv, NEW k \in 1..Len(calls), Handle(k)
  PROVE  /\ Given[k] = <<>>
         /\ \E a \in AllAnswers :
              Given' = [Given EXCEPT ![k] = <<[msg |-> Asked[k], answer |-> a]>>]
         /\ UNCHANGED <<Asked, Returned>>
<1> DEFINE c == calls[k]
           w == WireOf(method, c.request)
<1>1. c \in CallRecord(method) /\ CallOk(method, c) /\ method \in Method BY MappedTypes
<1>2. Reached(method) = method BY <1>1, Reaches
<1>3. MessageIn(method, w) = c.msg
  <2>1. c.msg \in Message[method] /\ c.request = RequestOf(method, c.msg)
    BY <1>1 DEF CallRecord, CallOk
  <2> QED BY <1>1, <2>1, Delivered DEF Arrives
<1>4. PICK a \in Answer[method] :
        calls' = [calls EXCEPT ![k] =
          [c EXCEPT !.far = "answered", !.response = ResponseOf(method, a),
                    !.given = <<[msg |-> MessageIn(method, w), answer |-> a]>>]]
  BY <1>2 DEF Handle
<1> DEFINE r == [c EXCEPT !.far = "answered", !.response = ResponseOf(method, a),
                          !.given = <<[msg |-> c.msg, answer |-> a]>>]
<1>5. calls' = [calls EXCEPT ![k] = r] BY <1>3, <1>4
<1>6. /\ r.given = <<[msg |-> c.msg, answer |-> a]>> /\ r.msg = c.msg
      /\ r.promise = c.promise /\ r.value = c.value
  BY <1>1 DEF CallRecord
<1>7. c.far = "sent" BY DEF Handle
<1>8. Given[k] = <<>> BY <1>1, <1>7 DEF Given, CallOk
<1>9. Asked[k] = c.msg BY DEF Asked
<1>10. Returned[k] = IF r.promise = "value" THEN <<r.value>> ELSE <<>>
  BY <1>6 DEF Returned
<1>11. [Returned EXCEPT ![k] = Returned[k]] = Returned BY DEF Returned
<1>12. ClientInv' BY HandleStep
<1> HIDE DEF r, c
<1>13. /\ Asked' = Asked /\ Given' = [Given EXCEPT ![k] = r.given]
       /\ Returned' = [Returned EXCEPT ![k] =
                         IF r.promise = "value" THEN <<r.value>> ELSE <<>>]
  BY <1>5, <1>6, <1>12, MappedOneCall DEF c
<1>14. a \in AllAnswers BY <1>1 DEF AllAnswers
<1>15. Given' = [Given EXCEPT ![k] = <<[msg |-> Asked[k], answer |-> a]>>]
  BY <1>6, <1>9, <1>13
<1>16. Returned' = Returned BY <1>10, <1>11, <1>13
<1> QED BY <1>8, <1>13, <1>14, <1>15, <1>16

\* run returns.
LEMMA TakeReplyMapped ==
  ASSUME ClientInv, NEW k \in 1..Len(calls), TakeReply(k)
  PROVE  /\ Returned[k] = <<>> /\ Given[k] # <<>>
         /\ Returned' = [Returned EXCEPT ![k] = <<Given[k][1].answer>>]
         /\ UNCHANGED <<Asked, Given>>
<1> DEFINE c == calls[k]
           r == [c EXCEPT !.event = "taken", !.promise = "value",
                          !.value = ValueOf(method, c.reply)]
<1>1. c \in CallRecord(method) /\ CallOk(method, c) BY MappedTypes
<1>2. c.ok /\ calls' = [calls EXCEPT ![k] = r] BY DEF TakeReply
<1>3. /\ ClientInv' /\ c.promise = "open"
      /\ calls'[k].promise = "value" /\ calls'[k].value = c.given[1].answer
  BY TakeReplyStep
<1>4. r.msg = c.msg /\ r.given = c.given BY <1>1 DEF CallRecord
<1>5. calls'[k] = r
  <2>1. DOMAIN calls = 1..Len(calls) BY LenProperties DEF ClientInv, ClientTypes
  <2> HIDE DEF r
  <2> QED BY <1>2, <2>1
<1>6. Given[k] = c.given BY DEF Given
<1>7. Returned[k] = <<>> BY <1>3 DEF Returned
<1>8. Given[k] # <<>>
  <2>1. c.far = "answered" BY <1>1, <1>2 DEF CallOk
  <2>2. PICK a \in Answer[method] : c.given = <<[msg |-> c.msg, answer |-> a]>>
    BY <1>1, <2>1 DEF CallOk
  <2> QED BY <1>6, <2>2
<1>9. [Given EXCEPT ![k] = Given[k]] = Given BY DEF Given
<1> HIDE DEF r, c
<1>10. /\ Asked' = Asked /\ Given' = [Given EXCEPT ![k] = r.given]
       /\ Returned' = [Returned EXCEPT ![k] =
                         IF r.promise = "value" THEN <<r.value>> ELSE <<>>]
  BY <1>2, <1>3, <1>4, MappedOneCall DEF c
<1>11. Returned' = [Returned EXCEPT ![k] = <<Given[k][1].answer>>]
  BY <1>3, <1>5, <1>6, <1>10
<1>12. Given' = Given BY <1>4, <1>6, <1>9, <1>10
<1> QED BY <1>7, <1>8, <1>10, <1>11, <1>12

\* What gRPC does besides, and an error that run tells, is a stutter.
LEMMA OtherMapped ==
  ASSUME ClientInv, NEW k \in 1..Len(calls),
         Refuse(k) \/ Complete(k) \/ Fail(k) \/ TakeError(k)
  PROVE  UNCHANGED <<Asked, Given, Returned>>
<1> DEFINE c == calls[k]
<1>1. c \in CallRecord(method) /\ CallOk(method, c) BY MappedTypes
<1>2. ClientInv' BY RefuseStep, CompleteStep, FailStep, TakeErrorStep
<1>3. CASE Refuse(k)
  <2> DEFINE r == [c EXCEPT !.far = "refused"]
  <2>1. calls' = [calls EXCEPT ![k] = r] BY <1>3 DEF Refuse
  <2>2. r.msg = c.msg /\ r.given = c.given /\ r.value = c.value /\ r.promise = c.promise
    BY <1>1 DEF CallRecord
  <2> HIDE DEF r
  <2> QED BY <1>2, <2>1, <2>2, MappedQuiet
<1>4. CASE Complete(k)
  <2> DEFINE r == [c EXCEPT !.event = "queued", !.ok = TRUE,
                            !.reply = ReplyIn(method, c.response)]
  <2>1. calls' = [calls EXCEPT ![k] = r] BY <1>4 DEF Complete
  <2>2. r.msg = c.msg /\ r.given = c.given /\ r.value = c.value /\ r.promise = c.promise
    BY <1>1 DEF CallRecord
  <2> HIDE DEF r
  <2> QED BY <1>2, <2>1, <2>2, MappedQuiet
<1>5. CASE Fail(k)
  <2> DEFINE r == [c EXCEPT !.event = "queued"]
  <2>1. calls' = [calls EXCEPT ![k] = r] BY <1>5 DEF Fail
  <2>2. r.msg = c.msg /\ r.given = c.given /\ r.value = c.value /\ r.promise = c.promise
    BY <1>1 DEF CallRecord
  <2> HIDE DEF r
  <2> QED BY <1>2, <2>1, <2>2, MappedQuiet
<1>6. CASE TakeError(k)
  <2> DEFINE r == [c EXCEPT !.event = "taken", !.promise = "exception"]
  <2>1. calls' = [calls EXCEPT ![k] = r] /\ c.event = "queued" BY <1>6 DEF TakeError
  <2>2. /\ r.msg = c.msg /\ r.given = c.given /\ r.value = c.value
        /\ r.promise = "exception"
    BY <1>1 DEF CallRecord
  <2>3. c.promise = "open" BY <1>1, <2>1 DEF CallOk
  <2> HIDE DEF r
  <2> QED BY <1>2, <2>1, <2>2, <2>3, MappedQuiet
<1> QED BY <1>3, <1>4, <1>5, <1>6

LEMMA QuietMapped ==
  ASSUME UNCHANGED calls
  PROVE  UNCHANGED <<Asked, Given, Returned>>
BY DEF Asked, Given, Returned

\* A client implements RemoteCall: for each method a message gets to its handler
\* at most once and unchanged, and a call returns what the handler answered to
\* it, whatever fails, comes late, or is interrupted.
THEOREM RemoteCallsCorrect == Spec => ImplementsRemoteCall
<1> DEFINE Stutter == UNCHANGED <<Asked, Given, Returned>>
<1>1. Init => Abstract!Init
  <2> SUFFICES ASSUME Init PROVE Asked = <<>> /\ Given = <<>> /\ Returned = <<>>
    BY DEF Abstract!Init, Asked, Given, Returned
  <2>1. calls = <<>> BY DEF Init
  <2>2. Len(calls) = 0 BY <2>1
  <2> QED BY <2>2 DEF Asked, Given, Returned
<1>2. ClientInv /\ [Next]_vars => [Abstract!Next]_(Abstract!vars)
  <2> SUFFICES ASSUME ClientInv, [Next]_vars
               PROVE  Abstract!Next \/ UNCHANGED Abstract!vars
    OBVIOUS
  <2>1. Stutter => UNCHANGED Abstract!vars
    BY DEF Abstract!vars, Asked, Given, Returned
  <2>2. CASE Call
    <3>1. Abstract!Ask
      BY <2>2, CallMapped DEF Abstract!Ask, Asked, Given, Returned, AllMessages
    <3> QED BY <3>1 DEF Abstract!Next
  <2>3. ASSUME NEW k \in 1..Len(calls), Handle(k) PROVE Abstract!Next
    <3>1. Abstract!Give(k)
      BY <2>3, HandleMapped DEF Abstract!Give, Asked, Given, Returned, AllAnswers
    <3>2. k \in 1..Len(Asked) BY MappedTypes
    <3> QED BY <3>1, <3>2 DEF Abstract!Next, Asked
  <2>4. ASSUME NEW k \in 1..Len(calls), TakeReply(k) PROVE Abstract!Next
    <3>1. Abstract!Return(k)
      BY <2>4, TakeReplyMapped DEF Abstract!Return, Asked, Given, Returned
    <3>2. k \in 1..Len(Asked) BY MappedTypes
    <3> QED BY <3>1, <3>2 DEF Abstract!Next, Asked
  <2>5. ASSUME NEW k \in 1..Len(calls),
               Refuse(k) \/ Complete(k) \/ Fail(k) \/ TakeError(k)
        PROVE  Stutter
    BY <2>5, OtherMapped
  <2>6. CASE Quiet \/ UNCHANGED vars
    <3>1. UNCHANGED calls BY <2>6, QuietStep DEF vars
    <3> QED BY <2>1, <3>1, QuietMapped
  <2> QED BY <2>1, <2>2, <2>3, <2>4, <2>5, <2>6 DEF Next, Caller, Take, Quiet
<1> QED BY <1>1, <1>2, ClientInvHolds, PTL DEF Spec, ImplementsRemoteCall, Abstract!Spec
=============================================================================
