---------------------------- MODULE MCRpcClient ----------------------------
(***************************************************************************)
(* The instance of RpcClient that TLC checks: messages with and without      *)
(* entries, with zeros, and with arguments that are not UTF-8.               *)
(***************************************************************************)
EXTENDS RpcClient

CONSTANTS host, op, arg, raw  \* texts

Ids == {[addr |-> Empty, port |-> 0], [addr |-> host, port |-> PortLimit - 1]}

Local == [addr |-> host, port |-> PortLimit - 1]

Label(n, text) ==
  [term |-> n, opName |-> op, args |-> text, prmIdx |-> n, srvId |-> Local]

Empties == [term |-> 0, opName |-> Empty, args |-> Empty, prmIdx |-> 0,
            srvId |-> [addr |-> Empty, port |-> 0]]

Append2(entries, n) ==
  [term |-> 1, leaderId |-> Local, prevLogIdx |-> n, prevLogTerm |-> n,
   logEntries |-> entries, commitIdx |-> n]

Messages ==
  [AppendEntries |-> {Append2(<<>>, 0), Append2(<<Empties, Label(1, arg), Label(2, Empty)>>, 2),
                      Append2(<<Label(1, arg), Label(0, raw)>>, 1)},
   RequestVote   |-> [term : 0..1, candidateId : Ids, lastLogIdx : 0..1, lastLogTerm : 0..1],
   AddLog        |-> [opName : {op}, args : {Empty, arg, raw}, prmIdx : 0..1, srvId : Ids]]

Replies == [term : 0..1, ans : BOOLEAN]

Answers ==
  [AppendEntries |-> Replies, RequestVote |-> Replies,
   AddLog |-> [success : BOOLEAN, leaderId : Ids]]
=============================================================================
