------------------------------ MODULE RpcClient ------------------------------
(***************************************************************************)
(* One client of RpcClient.cpp or RaftClient.cpp from construction to        *)
(* destruction: the thread that calls through it, the thread that runs its   *)
(* completion queue, and the far end, where gRPC parses the request,         *)
(* dispatches it to the handler and serializes the answer.  What uses it is, *)
(* by method, tryAppendEntries of a leader, a vote thread of a candidate, or *)
(* the thread of a call in Interface.                                        *)
(*                                                                         *)
(* gRPC is external: it completes every call once, with the reply or with an *)
(* error, at its deadline at the latest; a call it has completed with an     *)
(* error may still reach the handler.  The handler's answer is open.         *)
(***************************************************************************)
EXTENDS Conversion

CONSTANTS
  Message,  \* by method, the messages that may be sent
  Answer,   \* by method, the answers that the handler may give
  MaxCalls  \* bound: calls through the client

ASSUME ClientBounds ==
  /\ Message.AppendEntries \subseteq AppendEntriesMessage
  /\ Message.RequestVote \subseteq RequestVoteMessage
  /\ Message.AddLog \subseteq AddLogMessage
  /\ Answer.AppendEntries \subseteq Reply /\ Answer.RequestVote \subseteq Reply
  /\ Answer.AddLog \subseteq AddLogReply
  /\ MaxCalls \in Nat

VARIABLES
  method,      \* the method that is called through the client
  thread,      \* where the calling thread is
  retryTimes,  \* the variable of tryAppendEntries
  interrupted, \* whether the calling thread was asked to end, and has met that
  run,         \* the thread of the completion queue has not returned
  shutdown,    \* the completion queue was shut down
  calls        \* the calls made, each an AsyncClientCall with its request

vars == <<method, thread, retryTimes, interrupted, run, shutdown, calls>>

-----------------------------------------------------------------------------
\* The conversions by method

RequestOf(m, msg) ==
  CASE m = "AppendEntries" -> PbOfAppendEntriesMessage(msg)
    [] m = "RequestVote"   -> PbOfRequestVoteMessage(msg)
    [] m = "AddLog"        -> PbOfAddLogMessage(msg)

WireOf(m, request) ==
  CASE m = "AppendEntries" -> WritePbAppendEntriesMessage(request)
    [] m = "RequestVote"   -> WritePbRequestVoteMessage(request)
    [] m = "AddLog"        -> WritePbAddLogMessage(request)

Parses(m, wire) ==
  CASE m = "AppendEntries" -> ParsesPbAppendEntriesMessage(wire)
    [] m = "RequestVote"   -> ServerIdParsesAt(wire, 2)
    [] m = "AddLog"        -> ParsesPbAddLogMessage(wire)

\* What the handler gets, its parameter converted.
MessageIn(m, wire) ==
  CASE m = "AppendEntries" ->
         AppendEntriesMessageOfPb(ReadPbAppendEntriesMessage(NewPbAppendEntriesMessage, wire))
    [] m = "RequestVote" ->
         RequestVoteMessageOfPb(ReadPbRequestVoteMessage(NewPbRequestVoteMessage, wire))
    [] m = "AddLog" -> AddLogMessageOfPb(ReadPbAddLogMessage(NewPbAddLogMessage, wire))

\* The wire of the response that the handler's answer was copied into.
ResponseOf(m, answer) ==
  IF m = "AddLog" THEN WritePbAddLogReply(CopyPbAddLogReply(PbOfAddLogReply(answer)))
                  ELSE WritePbReply(CopyPbReply(PbOfReply(answer)))

ReplyParses(m, wire) == m = "AddLog" => ServerIdParsesAt(wire, 2)

\* AsyncClientCall::reply, fresh and once the response has been parsed into it.
NewReply(m) == IF m = "AddLog" THEN NewPbAddLogReply ELSE NewPbReply

ReplyIn(m, wire) ==
  IF m = "AddLog" THEN ReadPbAddLogReply(NewPbAddLogReply, wire)
                  ELSE ReadPbReply(NewPbReply, wire)

\* What run makes of the reply.
ValueOf(m, reply) == IF m = "AddLog" THEN AddLogReplyOfPb(reply) ELSE ReplyOfPb(reply)

-----------------------------------------------------------------------------
\* A call: the request is on its way ("sent"), was answered by the handler, or
\* could not be parsed ("refused"); its completion is to come, is in the
\* queue, or was taken; its promise is kept, broken by an exception, or open.
NewCall(msg) ==
  [msg |-> msg, request |-> RequestOf(method, msg), far |-> "sent", response |-> <<>>,
   given |-> <<>>, event |-> "pending", ok |-> FALSE, reply |-> NewReply(method),
   promise |-> "open", value |-> <<>>]

PbRequest(m) ==
  CASE m = "AppendEntries" -> PbAppendEntriesMessage
    [] m = "RequestVote"   -> PbRequestVoteMessage
    [] m = "AddLog"        -> PbAddLogMessage

\* The variables have their types.  In particular retryTimes does not pass 1: run
\* ends with the first error, and the errors that tryAppendEntries would count
\* after it never come.
TypeOK ==
  /\ method \in Method
  /\ thread \in {"ready", "waiting", "finished", "joining", "ended", "terminated"}
  /\ retryTimes \in 0..1
  /\ interrupted \in {"no", "asked", "met"}
  /\ run \in BOOLEAN /\ shutdown \in BOOLEAN
  /\ \A k \in 1..Len(calls) :
       /\ calls[k].request \in PbRequest(method)
       /\ calls[k].far \in {"sent", "answered", "refused"}
       /\ calls[k].event \in {"pending", "queued", "taken"}
       /\ calls[k].reply \in (IF method = "AddLog" THEN PbAddLogReply ELSE PbReply)
       /\ calls[k].promise \in {"open", "value", "exception"}

\* After the constructor, which starts run.
Init ==
  /\ method \in Method
  /\ thread = "ready" /\ retryTimes = 0 /\ interrupted = "no"
  /\ run = TRUE /\ shutdown = FALSE
  /\ calls = <<>>

-----------------------------------------------------------------------------
\* The calling thread

\* Whether the user of the client may call (again): a vote thread and a call of
\* Interface use it once.
MayCall ==
  /\ thread = "ready" /\ Len(calls) < MaxCalls
  /\ method = "AppendEntries" \/ calls = <<>>

\* asyncCall...: convert the message, start the call and wait on the future.
Call ==
  /\ MayCall
  /\ method = "AppendEntries" => interrupted # "asked"
  /\ \E msg \in Message[method] : calls' = Append(calls, NewCall(msg))
  /\ thread' = "waiting"
  /\ UNCHANGED <<method, retryTimes, interrupted, run, shutdown>>

\* The interruption point at the head of the loop of tryAppendEntries.
InterruptedBefore ==
  /\ thread = "ready" /\ method = "AppendEntries" /\ interrupted = "asked"
  /\ thread' = "finished" /\ interrupted' = "met"
  /\ UNCHANGED <<method, retryTimes, run, shutdown, calls>>

\* The wait on the future is interrupted.
InterruptedInCall ==
  /\ thread = "waiting" /\ interrupted = "asked"
  /\ calls[Len(calls)].promise = "open"
  /\ thread' = "finished" /\ interrupted' = "met"
  /\ UNCHANGED <<method, retryTimes, run, shutdown, calls>>

\* The value is there.  tryAppendEntries goes on after a rejection, unless the
\* term was greater or nextIdx has come down to 1.
GetValue ==
  /\ thread = "waiting" /\ calls[Len(calls)].promise = "value"
  /\ \/ thread' = "finished"
     \/ /\ method = "AppendEntries" /\ ~calls[Len(calls)].value.ans
        /\ thread' = "ready"
  /\ UNCHANGED <<method, retryTimes, interrupted, run, shutdown, calls>>

\* The bug of waiting for the same call again.
GetErrorAgain ==
  /\ thread = "waiting" /\ calls[Len(calls)].promise = "exception"
  /\ retryTimes' = retryTimes + 1
  /\ thread' = IF retryTimes' > 2 THEN "finished" ELSE "waiting"
  /\ UNCHANGED <<method, interrupted, run, shutdown, calls>>

\* An RpcError is there.  tryAppendEntries calls again, twice at most.
GetError ==
  /\ thread = "waiting" /\ calls[Len(calls)].promise = "exception"
  /\ IF method = "AppendEntries"
     THEN /\ retryTimes' = retryTimes + 1
          /\ thread' = IF retryTimes' > 2 THEN "finished" ELSE "ready"
     ELSE thread' = "finished" /\ UNCHANGED retryTimes
  /\ UNCHANGED <<method, interrupted, run, shutdown, calls>>

\* The heartbeat, leave, or Interface's Shutdown interrupts the thread.
Interrupt ==
  /\ interrupted = "no" /\ thread \notin {"ended", "terminated"}
  /\ interrupted' = "asked"
  /\ UNCHANGED <<method, thread, retryTimes, run, shutdown, calls>>

\* The bug of joining the thread without telling it that the end has come.
DestroyQuietly ==
  /\ thread = "finished"
  /\ method = "RequestVote" => interrupted # "no"
  /\ thread' = "joining"
  /\ UNCHANGED <<method, retryTimes, interrupted, run, shutdown, calls>>

\* The destructor, up to the join.  A candidate destroys its clients in leave,
\* which interrupts their threads first.
Destroy ==
  /\ thread = "finished"
  /\ method = "RequestVote" => interrupted # "no"
  /\ shutdown' = TRUE
  /\ thread' = "joining"
  /\ UNCHANGED <<method, retryTimes, interrupted, run, calls>>

Joined ==
  /\ thread = "joining" /\ ~run
  /\ thread' = "ended"
  /\ UNCHANGED <<method, retryTimes, interrupted, run, shutdown, calls>>

\* An interruption in the join, which the thread of an Interface's call has not
\* disabled, leaves the destructor as an exception.
Terminate ==
  /\ thread = "joining" /\ run
  /\ method = "AddLog" /\ interrupted = "asked"
  /\ thread' = "terminated" /\ interrupted' = "met"
  /\ UNCHANGED <<method, retryTimes, run, shutdown, calls>>

-----------------------------------------------------------------------------
\* The far end

\* gRPC parses the request, and the method that the service has under the name
\* converts it, runs its function, and copies the converted answer into the
\* response.
Handle(k) ==
  /\ calls[k].far = "sent"
  /\ LET m    == Reached(method)
         wire == WireOf(method, calls[k].request)
     IN  /\ Parses(m, wire)
         /\ \E a \in Answer[m] :
              calls' = [calls EXCEPT ![k] =
                [@ EXCEPT !.far = "answered", !.response = ResponseOf(m, a),
                          !.given = <<[msg |-> MessageIn(m, wire), answer |-> a]>>]]
  /\ UNCHANGED <<method, thread, retryTimes, interrupted, run, shutdown>>

\* A request that cannot be parsed is answered with an error.
Refuse(k) ==
  /\ calls[k].far = "sent"
  /\ ~Parses(Reached(method), WireOf(method, calls[k].request))
  /\ calls' = [calls EXCEPT ![k].far = "refused"]
  /\ UNCHANGED <<method, thread, retryTimes, interrupted, run, shutdown>>

\* The response arrives in time and is parsed into the reply.
Complete(k) ==
  /\ calls[k].event = "pending" /\ calls[k].far = "answered"
  /\ ReplyParses(method, calls[k].response)
  /\ calls' = [calls EXCEPT ![k] =
                 [@ EXCEPT !.event = "queued", !.ok = TRUE,
                           !.reply = ReplyIn(method, calls[k].response)]]
  /\ UNCHANGED <<method, thread, retryTimes, interrupted, run, shutdown>>

\* The deadline passes, the call is cancelled, the server cannot be reached or
\* has refused the request, or the response cannot be parsed.
Fail(k) ==
  /\ calls[k].event = "pending"
  /\ calls' = [calls EXCEPT ![k].event = "queued"]
  /\ UNCHANGED <<method, thread, retryTimes, interrupted, run, shutdown>>

-----------------------------------------------------------------------------
\* The thread of the completion queue

\* The bug of returning before the caller has been told.
TakeErrorSilently(k) ==
  /\ run /\ calls[k].event = "queued" /\ ~calls[k].ok
  /\ calls' = [calls EXCEPT ![k].event = "taken"]
  /\ run' = FALSE
  /\ UNCHANGED <<method, thread, retryTimes, interrupted, shutdown>>

TakeReply(k) ==
  /\ run /\ calls[k].event = "queued" /\ calls[k].ok
  /\ calls' = [calls EXCEPT ![k] =
                 [@ EXCEPT !.event = "taken", !.promise = "value",
                           !.value = ValueOf(method, calls[k].reply)]]
  /\ UNCHANGED <<method, thread, retryTimes, interrupted, run, shutdown>>

\* An error ends the thread.
TakeError(k) ==
  /\ run /\ calls[k].event = "queued" /\ ~calls[k].ok
  /\ calls' = [calls EXCEPT ![k] = [@ EXCEPT !.event = "taken", !.promise = "exception"]]
  /\ run' = FALSE
  /\ UNCHANGED <<method, thread, retryTimes, interrupted, shutdown>>

\* Next returns false: the queue was shut down, and nothing is left to come.
Drained ==
  /\ run /\ shutdown
  /\ \A k \in 1..Len(calls) : calls[k].event = "taken"
  /\ run' = FALSE
  /\ UNCHANGED <<method, thread, retryTimes, interrupted, shutdown, calls>>

-----------------------------------------------------------------------------
Caller ==
  \/ Call \/ InterruptedBefore \/ InterruptedInCall \/ GetValue \/ GetError
  \/ Destroy \/ Joined \/ Terminate

Take == (\E k \in 1..Len(calls) : TakeReply(k) \/ TakeError(k)) \/ Drained

Next ==
  \/ Caller \/ Take \/ Interrupt
  \/ \E k \in 1..Len(calls) : Handle(k) \/ Refuse(k) \/ Complete(k) \/ Fail(k)

Spec == Init /\ [][Next]_vars

\* Threads that can run do, and no call is open beyond its deadline.
FairSpec ==
  /\ Spec
  /\ WF_vars(Caller) /\ WF_vars(Take)
  /\ WF_vars(\E k \in 1..Len(calls) : Complete(k) \/ Fail(k))

-----------------------------------------------------------------------------
\* Properties

Abstract == INSTANCE RemoteCall WITH
  Message  <- UNION {Message[m] : m \in Method},
  Answer   <- UNION {Answer[m] : m \in Method},
  asked    <- [k \in 1..Len(calls) |-> calls[k].msg],
  given    <- [k \in 1..Len(calls) |-> calls[k].given],
  returned <- [k \in 1..Len(calls) |->
                 IF calls[k].promise = "value" THEN <<calls[k].value>> ELSE <<>>]

\* The handler of the method that was called gets the message that was sent, and
\* the caller what was answered to that message, whatever is omitted on the
\* wire, and whichever calls before were rejected, failed, or came too late.
ImplementsRemoteCall == Abstract!Spec

Texts(m) ==
  CASE method = "AppendEntries" ->
         {m.leaderId.addr} \cup UNION {{e.opName, e.args, e.srvId.addr} : e \in ToSet(m.logEntries)}
    [] method = "RequestVote" -> {m.candidateId.addr}
    [] method = "AddLog" -> {m.opName, m.args, m.srvId.addr}

\* The entry that a leader logs for an AddLog message.
EntryFor(m) ==
  [term |-> 0, opName |-> m.opName, args |-> m.args, prmIdx |-> m.prmIdx, srvId |-> m.srvId]

\* Which requests are refused depends on their text alone: one whose names,
\* arguments and addresses are UTF-8 never is.  And what a leader accepts, its
\* followers accept: an entry that made every AppendEntries fail to parse would
\* stop replication for ever.
LogStaysReplicable ==
  \A k \in 1..Len(calls) :
    /\ calls[k].far = "refused" => ~(Texts(calls[k].msg) \subseteq Utf8)
    /\ method = "AddLog" /\ calls[k].far = "answered" =>
         ParsesPbLogEntry(WritePbLogEntry(PbOfLogEntry(EntryFor(calls[k].given[1].msg))))

\* While no call of the client has failed, a caller gets a value or an error: run
\* tells of the error before it returns.
CallReturns == (thread = "waiting" /\ run) ~> (thread # "waiting")

\* The destructor returns, or ends the process, though a call be open whose
\* caller was interrupted, and though run may have returned.
DestructorReturns ==
  (thread = "finished" /\ (method = "RequestVote" => interrupted # "no"))
    ~> thread \in {"ended", "terminated"}
=============================================================================
