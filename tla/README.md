# A TLA+ model of quintet

quintet is a C++ library that replicates a service over a cluster with the Raft
protocol. This directory holds TLA+ modules that model its servers, TLC
configurations that check them on small clusters, and proofs, checked by TLAPS,
for clusters of any size. `PROJECT.json` lists components, runs, mutants, the
source lines behind each definition, findings, hazards and theorems.

## 1. The system

| Part | State | Operations | Talks to |
|---|---|---|---|
| `Raft` (`src/src/raft/Raft.cpp`) | `currentIdentity`, the identities, `ServerState`, `eventQueue`, `rpc` | `Configure`, `AsyncRun`, `Stop`, RPC dispatch, `transform` | everything below |
| `ServerState` | `currentTerm`, `votedFor`, `entries`, `commitIdx`, `lastApplied`, one mutex each | read and written by the identities | - |
| `IdentityFollower` | - | `init` starts the election timer, handlers restart it | timer, transformer |
| `IdentityCandidate` | `votesReceived`, vote threads | `init` votes for itself and starts a thread per server; a thread counts its vote | `RpcClient`, transformer |
| `IdentityLeader` | `followerNodes` (`nextIdx`, `matchIdx`), `logStates` (`replicateNum`), append threads | heartbeat, `tryAppendEntries`, `addLog` | `RpcClient`, transformer, `Apply` |
| `IdentityBaseImpl` | - | the handlers all identities share, `checkRpcTerm`, `applyReadyEntries` | timer, transformer, `Apply` |
| `IdentityTransformer` | `termTriggered` | `notify`: lets a transformation through once per term | event queue |
| `HeartBeatController` | the beating thread, a mutex, cached parameters | `start`, `stop`, `restart` | calls back the identity |
| `EventQueue` | queue of closures, `paused`, a thread | `addEvent`, `pause`, `resume`, `wait`, `stop`, `start` | runs `transform`, and `Apply`'s callbacks |
| `RpcService` | `paused`, `numRpcRemaining`, the mutex `rpcing` | handlers, `pause`, `resume`, `stop` | gRPC, `Raft` |
| `RpcClient`, `RaftClient` | completion queue and its thread | calls with a deadline | `Conversion`, gRPC |
| `Conversion`, generated protobuf and gRPC code | - | messages to protobuf, to the wire, and back; dispatch by method name | gRPC |
| `Interface` | promises, functions, client threads | `asyncCall`, `apply`, `Start`, `Shutdown` | `RaftClient`, `Raft` |

Threads of one server: gRPC's handler threads, serialised by `rpcing`; the event
queue's thread, which runs `transform`; the beating thread, which is the election
timer of a follower or candidate and the heartbeat of a leader; one thread per
vote requested; one append thread per follower; the apply queue's thread.
They meet in `ServerState`, in `IdentityTransformer::notify` and in the event
queue. Servers meet in three RPCs: `RequestVote`, `AppendEntries`, `AddLog`.

What is hard here: votes, timeouts and step downs of one candidacy race each
other, and those of the next; a transformation is asked for at one time and
carried out at another; calls are lost, repeated, overtaken, or served after
their caller has given up; a leader's tables are read after the log they describe
has changed; `Stop` races everything. Nothing is persisted, so a crash is not
recovered from: a process that ends stays away.

What makes it correct: one transformation per term and server; a leader only with
a quorum; one leader per term; logs that do not diverge and do not shrink below
what is committed; services that are handed the same requests in the same order,
once each; a leader's `matchIdx` that is true of its followers; requests that are
applied in the end; a `Stop` that is final.

## 2. The modules

    RaftDefs <- IdentityBase <- Quintet <- MCQuintet, MCOverwrite   (TLC)
                  ReplicatedLog <-
                                Quintet <- QuintetProofs <- OneContenderProofs <- CauseProofs
                                                                    (TLAPS)
    SerialQueue <- EventQueue <- EventQueueProofs
    RpcService <- RpcServiceProofs
    HeartBeatController <- HeartBeatControllerProofs
    CallService <- Interface <- InterfaceProofs
    RaftRpc <- Conversion <- RpcClient <- MCRpcClient, RpcClientProofs
               RemoteCall <- RpcClient

`Quintet` is the cluster, in steps of whole handlers and transformations.
`EventQueue`, `RpcService` and `HeartBeatController` are the components that make
such steps out of threads; they are modelled at the level of mutexes and condition
variables. `Interface` is what stands on top of the cluster.
`RpcClient` is one client with the far end of its calls, and `RaftRpc` and `Conversion`
are what the messages pass through on the way.
`SerialQueue` is what `Quintet` takes an event queue to be (`queue[i]`, of which
`Transform` carries out the first), and `EventQueue` is shown to implement it.

**RaftDefs**: constants and bounds with their assumptions, the types of messages,
and the pure operators of the handlers: `UpToDate`, `HasPrev`, `Merge`. A log is
the sequence of entries 1, 2, ...; the empty entry 0 the code keeps is not stored,
so `Len(log)` is `entries.size() - 1`. An entry is a term and a label, the
`(srvId, prmIdx)` by which `addLog` tells requests apart; operation and arguments
play no part in the protocol. Conversion and serialization are in `Conversion` and
`RaftRpc`.

**IdentityBase**: `ServerState`, the election timer, `IdentityTransformer` and the
RPC handlers. `RpcService` holds the mutex `rpcing` from the entry of a handler to
its return, so a handler is one step. `RPCRequestVote` and `RPCAppendEntries` are
`defaultRPC...` together with what follower, candidate and leader wrap around it
(`IgnoresAppend`, `StepsDown`), and end with `ApplyReadyEntries`, as the deferred
lambda does. `CheckedTerm` is `checkRpcTerm` as it is written: it *lowers* the term.
(`addLog` alone lets go of the state in between, see `AddLog` below.)
`votedFor` is not reset when the term changes, because the code does not reset it.

**Quintet**: the cluster.

| Action | Code |
|---|---|
| `Expires`, `NotifyTimeout` | the election timer's callback in its two steps: read `currentTerm`, `notify(Candidate, term)`, whatever the term is by then (`expiring`); the timer is one-shot, and `stop` and `restart` join its thread (`NoTimeoutBegun`) |
| `BecomeDown/Follower/Candidate/Leader` | `transform`: `leave` of the old identity and `init` of the new one, with `rpc.pause` held |
| `ServeRequestVote`, `ServeAppendEntries` | a handler, and its reply |
| `TakeVoteReply` | a vote thread after its call |
| `SendAppendEntries`, `...Throws` | one round of `tryAppendEntries` up to the call; `entries.at` may throw |
| `TakeAppendSuccess`, `...Crashes`, `TakeAppendGreaterTerm`, `TakeAppendRejection` | the outcomes of the call; the count loop and `applyReadyEntries` included; copying past the end of the log either yields destroyed entries (label `Nil`) or ends the process |
| `AddLog`, `AddLogState` | `IdentityLeader::Impl::addLog` in its two critical sections: the entry, then its `LogState`; in between (`adding`) append threads and transformations go on, other handlers do not (`HandlerFree`); other identities refuse and change nothing |
| `Stop`, `Stopped` | `Raft::Impl::stop`, and its return once the event queue has drained |

A call in flight is its request or its reply. Lost is what no step takes. A call
is abandoned when its thread is interrupted, retries, or passes its deadline: its
reply, if any, goes nowhere, and of the requests some may have got so far that they
are served nevertheless (`live` is FALSE; `Abandon`). A retry after an `RpcError`
is an abandoned call and a new one. `Abort` is the end of a process by an uncaught
exception or a wild read in one of its threads: RPC to it fails from then on.
`queue` holds the target of each pending `transform` and, for the properties, the
term it was triggered for. `grants` and `since` are history variables: they record
the votes given and the latest term transformed for and are read by properties only.

**ReplicatedLog**: what the cluster promises the services: one log, which gets each request at
most once and loses none, and of which each service is handed the next requests, in order.
`Quintet` maps to it by the labels of its longest log and by what was handed over.

**SerialQueue**: events are numbered as they are added, and run one at a time, once,
in order. Three actions: `Add`, `Begin`, `End`.

**EventQueue**: the threads that add, the running thread (`exec`) and the owner
(`owner`), the thread that calls `pause`, `resume`, `wait`, `stop`, `start`. In
the code these are Raft's stop and destructor, and tests; two of them do not run
at the same time. A wait on a condition variable is three steps: find the
predicate false with the mutex held (`ExecuteBlock`, `WaitBlock`), give the mutex up
and sleep (`ExecuteWait`, `WaitSleep`), and, once woken, take it again. The mutex is
thus held across steps only at the place "blocking"; every other critical section
is one step. `resume` is two steps, because it holds no mutex. An interruption acts
on entering or leaving a wait (`ExecuteReturn`); an event runs with interruptions
disabled. `executed` and `due` are history variables.

**RpcService**: handlers (`place`), the transforming thread (`transformer`), the
thread in `stop` (`stopper`). The three bind functions wrap alike, so one kind of
handler stands for all. `rpcing` is held while a handler's function runs and by
`stop` from the end of its wait to its return. gRPC is external: `Accept` hands a call
to a thread, and `Shutdown` without a deadline waits for the calls that were accepted.

**HeartBeatController**: the beating threads in the order in which they were started
(`beats`), the handle `th`, and its two users, the transforming thread and a handler of
the follower. `stop` is five places: interrupt, take a reference (`Join`), wait, clear
`th`, give the reference up; `start` is two, `TryLock` and `Launch`. The lock on `m` is
moved into the function of the started thread and so lives as long as that function
does: `Locked` is derived from who launches, which threads are alive and which are still
referred to. A handler holds `currentTermM` while it restarts the timer for a vote in a
greater term (`RestartInNewTerm`); a timeout reads the current term (`Call`).
Transformations come from the event queue (`events`), in the order in which timeouts, votes,
step downs and `Stop` ask for them (`Notify`), so follower may follow follower, and a stopped
server may be revived. A handler passes the check of `paused` (`Enter`), is dispatched on the
identity there is by then (`Dispatch`), and after that waits for no transformation.

**RaftRpc**: the generated messages and what is generated for each: an empty message
(`New...`), serializing (`Write...`), parsing into a message (`Read...`), whether parsing
succeeds (`Parses...`), merging and copying of replies. The wire is, by tag (number and wire
type), the sequence of the values written with that tag; how fields of different tags are
interleaved is left out, since parsing deals with each tag alone. Zeros, empty strings and
absent messages are not on the wire, a repeated scalar overwrites, a repeated message merges,
a string that is not UTF-8 fails the parse but not the serialization. `StubName`, `Service` and `Reached` are the tables of names
by which a call finds its method.

**Conversion**: the messages of `RpcDefs.h` and their way into protobuf (`PbOf...`) and out
of it (`...OfPb`), where a port is cut to 16 bits and an absent message reads as an empty one.

**RemoteCall**: what users take a client to be: a message reaches its handler at most once and
unchanged, and a call that returns a value returns the answer to its own message.

**RpcClient**: one `RpcClient` or `RaftClient`, with the thread that calls through it.

| Action | Code |
|---|---|
| `Call` | `asyncCall...`: convert, start the call, wait on the future |
| `GetValue`, `GetError` | the wait ends; `tryAppendEntries` goes on after a rejection and tries again after an error |
| `Interrupt`, `InterruptedBefore`, `InterruptedInCall` | the heartbeat, `leave` or `Shutdown`; the two places where the thread meets it |
| `Destroy`, `Joined`, `Terminate` | the destructor: shut the queue down, join `run`; the interruption that leaves it as an exception |
| `Handle`, `Refuse`, `Complete`, `Fail` | gRPC: parse, dispatch and answer; the completion that comes for every call |
| `TakeReply`, `TakeError`, `Drained` | `run`, which returns at the first error or when nothing is left |

**CallService**: what callers are promised, whatever Raft does. A server executes only calls
that were made; a call is answered once at most, with the result of its first execution on the
server it was made on; and that server ends rather than go on after a second.

**Interface**: `Interface` on every server, with `RaftClient`, `ThreadPool` and `Apply`.

| Action | Code |
|---|---|
| `AsyncCall`, `StartThread` | `asyncCall`: number, promise; `addLog`: the thread of the call |
| `Fail`, `TryNext`, `End` | an `RpcError` or a refusal, the next server of `srvList`, success |
| `EndInterrupted`, `Terminate` | an interruption in the call; one in the destructor of `RaftClient`, which ends the process |
| `Accept`, `Refuse` | `RPCAddLog`: any server may at any time take a call into its log, as a leader does, or refuse it |
| `Hand` | `applyReadyEntries`, to `Apply`: what some server has accepted may be handed to any server, in any order, again or never |
| `Apply` | `Interface::apply`: execute, and keep the promise if the entry is this server's; without a promise the assertion ends the process |
| `Shutdown`, `ClearWithInterruption`, `ShutdownReturn` | `Shutdown` in its three stages |

## 3. Bounds

| Constant | Meaning | Why it is enough |
|---|---|---|
| `TermLimit` | per server, the last term it stands for; 0 means its timer never expires | two terms let a server be candidate, step down, and stand again |
| `MaxLate` | abandoned requests of a kind that may still be served | one suffices to overtake, two to reorder |
| `MaxEvents` | no timeout while that many events are queued | at term 0 `notify` filters nothing, so timeouts could be queued without end |
| `MaxCount` | replica counters | with one contender a counter is at most 1 + 2 (N - 1), so the bound is never met; otherwise it cuts off repeated counting |
| `Calls` | `AddLog` calls per server and request | one lets a request reach any server; two (of the requests `Repeated`) let it be repeated. In `replication` the two servers that never stand for election are interchangeable, which symmetry uses |
| `MaxEvents`, `MaxPauses`, `MaxStops`, `MaxSpurious` of `EventQueue` | events, calls and spurious wake-ups | three events, of which one runs, one is queued and one is late; two pauses and stops, so that each follows a restart |
| `Handler`, `MaxCalls`, `MaxTransforms`, `MaxStops` of `RpcService` | threads, calls, pauses, stops | three handlers: one runs, one waits for `rpcing`, one sleeps; four calls, so that a thread serves again |
| `MaxTransforms`, `MaxHandlers` of `HeartBeatController` | transformations, handlers that may restart the timer | five: to follower, candidate, leader and down in any order the code allows, and one after `Down`; two handlers, so that the second meets what the first left |
| `MaxCalls`, `Message`, `Answer` of `RpcClient` | calls through one client, messages and answers by method | three calls: a rejection or a late answer, an error, and the attempt after it; messages with no, one and two entries, with all fields zero and with all set, the greatest port, and a text that is not UTF-8 |
| `N`, `MaxCalls`, `Stoppable`, `MaxLate`, `MaxHanded` of `Interface` | servers, calls on each, who may be shut down, requests given up that may be served, entries handed out | two servers with a call each: own and foreign entries; one late request is enough to repeat a call, two entries to hand one out twice |

Two servers already overwrite each other's logs; three are needed for a majority
that is not everybody. Deadlock is not checked: the bounds end every execution,
a cluster without requests may rest, and so may a queue and a service.

## 4. Runs

Passing:

- **overwrite** (2.2 million states): two servers, two terms and two leaders, of which the
  second overwrites and shortens the log of the first below its `commitIdx`, `nextIdx` and
  `logStates`, and may be stopped at any moment. Votes, timeouts and step downs race each
  other: `OneTransformationPerTerm`, `LeaderHasQuorum` (both are proved for any cluster).
  `CommittedIsApplied`: nothing committed is left waiting when a handler or append thread
  ends. The two crashes of append threads happen here.
- **replication** (1.5 million states): one server only ever times out, two requests are made,
  and clients repeat one of them. Then logs are prefixes of each other and never shrink,
  `matchIdx` is sound, any two services have applied the same requests in the same order,
  each once (`AppliedAgree`), and the cluster implements `ReplicatedLog`
  (`ImplementsReplicatedLog`): a service is handed the requests of one log, in order and
  once, whatever is lost, late or reordered. With two
  contenders these properties fail: two leaders of one term, votes without a log check
  and over-counted replicas (see below) let two services apply different requests in the
  same position. That the regime with one contender keeps them shows that the replication
  path itself is right. (`LongestLog` chooses among logs of the same length, which have the
  same labels as long as the property holds, so symmetry is sound.)
- **progress**: in that regime, under fairness, a logged request is applied by every server
  that is up, though a follower may be stopped at any moment and clients repeat their calls
  (`LoggedIsApplied`). The property names one
  exception: a reply that the leader takes between the two critical sections of `addLog`
  moves `nextIdx` past the new entry without counting a replica, and no later reply counts it
  (`Undercounted`). Without the exception TLC finds the entry that is on every server and
  never committed.
- **queue**: the event queue implements `SerialQueue` (`ImplementsSerialQueue`, the
  refinement), and `StoppedIsDrained`: when `stop` has returned, what had been added
  before it was called has run. While the queue has not been paused, no wake-up is lost
  (`AwakeForEvents`), each event runs and a first `stop` returns. With a pause these
  three fail: `resume` changes `paused` without the mutex, and the running thread,
  between its predicate and its sleep, misses the notification. A second `stop`, the
  destructor's, does not return either if an event was added after the first.
- **rpc**: `numRpcRemaining` is exact, and when `stop` goes on to shut the server down
  no handler runs or waits to be resumed (`ShutdownFindsNobody`). A call that has reached
  a handler returns (`CallsReturn`), but for two races that its premise names: the
  notification of `resume`, which changes `paused` without `rpcing`, meets a handler
  between its predicate and its sleep, and its call hangs until another returns; and
  `stop` holds `rpcing` in `Shutdown`, which waits for a handler that came too late to be
  counted and needs `rpcing`. Without the one or the other half of the premise TLC finds
  the hang. (The wait of `stop` can miss the last handler's notification, too, because the
  count is lowered without `rpcing`; that `stop` returns is not stated.)
- **beat** (1.4 million states): one thread beats at a time (`OneBeat`), the assertion of `start` holds
  (`NotJoinable`), and when transformer and handler have finished, a server that is up has
  a timer that beats or has expired (`TimerLeft`), although `start` gives up when `m` is held and
  nobody looks at its answer. `stop` returns (`StopsReturn`) unless a handler holds
  `currentTermM` while it joins a timer that waits for `currentTermM`, a deadlock TLC finds
  without the premise. Two more things were tried and do not hold: that a leader's timer
  repeats (a restart that spans two transformations starts it with the old parameters or
  takes the lock first), and that a server that is down has no timer (a restart beside
  `Stop`). `HeartBeatController.h:44` asks its users not to start and stop at the same time.
- **calls**: what the Interface gives its callers, and what it needs of Raft to give it. **For
  safety nothing is assumed of Raft**: `Accept`, `Refuse` and `Hand` let any server accept, and
  what was accepted be handed out in any order, twice, or to some servers only, because the runs
  `two_leaders` and `overcount` show that the code does not exclude it. What remains is the
  Interface's own: it implements `CallService`, and an entry of a server's own that is handed to
  it for the first time finds its promise (`PromiseFound`), although requests are repeated, late
  and refused. That the assertion of `apply` (`Interface.cpp:29`) never fails would need Raft to
  hand an entry out once, and Raft does not: a leader that counts a replica of an entry only it
  holds (`IdentityLeader.cpp:242`) applies it and erases the promise; a server without the entry
  is elected next; the thread of the call, which got no reply, tries on and has it logged again;
  the first server executes it a second time and the assertion fails. In the model the process
  ends there. One order for all servers, and one execution per server, are properties of
  `Quintet` (`AppliedAgree`), which holds with one contender.
  `Shutdown` returns or, by an interruption in
  the destructor of `RaftClient`, ends the process (`ShutdownReturns`), and nothing is sent
  afterwards (`ShutdownIsQuiet`). A call is answered (`CallsAnswered`) **if** some server, not
  known to the caller, leads in the end and refuses nothing any more (`StaysLeader`), no server
  is shut down or ends, and Raft delivers what it logged (`Delivered`). Neither premise can be
  dropped: without `Delivered` TLC finds the call that was accepted and lost, and the
  thread that would have repeated it has ended. The code does not guarantee `Delivered` either, even with
  one leader: see the exception of `progress`.

- **client**: for each of the three methods, whatever fails, comes late or is interrupted, a
  client implements `RemoteCall` (`ImplementsRemoteCall`): this is where conversion, wire and
  dispatch matter, and answers to calls that were given up. `LogStaysReplicable`: only a text
  that is not UTF-8 is refused, and what `addLog` accepts parses again inside an
  `AppendEntries`; a message that did not would stop replication. `CallReturns` and
  `DestructorReturns`: no caller waits for ever while `run` is at work, and the destructor
  returns although calls may be open or `run` gone. The premise of `CallReturns` is needed:
  `run` returns at the first error, so a second attempt of `tryAppendEntries` through the same
  client is never answered, and its thread waits until the next heartbeat interrupts it. The
  error count stays below 2 (`TypeOK`), the branch `retryTimes > 2` is never reached, and the
  comment "Try indefinitely until succeed" (`IdentityLeader.cpp:56`) is kept by the heartbeat,
  not by the loop.

Expected violations, each a disagreement of the code with a comment, document or test
(`PROJECT.json`, findings):

- **two_leaders**: `checkRpcTerm` lowers `currentTerm` on an old message, so a term can be entered twice and voted in twice: two leaders in one term.
  It is the only way to get there (`LoweringElectsTwo`).
- **wedged**: `notify` refuses a timeout of a term already used, the refusal is
  ignored, and the one-shot timer is gone: the server never stands for election again.
  Nothing else loses a timer (`RefusalWedges`).
- **overcount**: the count loop of `tryAppendEntries` runs to `logStates.size()`, and
  so counts entries that were added while the call was in flight. With one contender nothing
  else commits too early (`OvercountingCommitsEarly`).
- **revival**: an event queued behind `Stop`'s `Down` is still carried out; without
  such an event a stopped server is down (`LateEventRevives`).

Fairness (`progress`): the event queue's thread runs what is queued (WF of
`Transform`), a timeout that has begun goes on to `notify` (WF of `NotifyTimeout`); the heartbeat repeats for ever, so an append thread is always started
again (WF of `SendAppendEntries`); of calls repeated for ever some get through, and so
do some of their replies (SF of serving and of taking them); a handler between its critical
sections goes on (WF of `AddLogState`). Timeouts and `AddLog` need
no fairness. The premise of `LoggedIsApplied` is a leader with the request in its log.
For `EventQueue`, a thread that can go on does (WF of the steps of the running thread
and of the owner inside a call; no call need be made). For `RpcService`, moreover, a
thread that time and again finds `rpcing` free gets it (SF), and a transformation ends.
For `HeartBeatController`, threads that can run do and periods end (WF). For `RpcClient`, the calling
thread and `run` go on (WF), and gRPC completes every call, at its deadline at the latest (WF);
nothing is assumed of the far end or of interruptions. For `Interface`,
threads that can run do and deadlines pass (WF), a request that is sent to
a server over and over is served before its deadline (SF, for each server), and a thread that is interrupted
meets the wait for a reply that has not come yet (SF: the wait is an interruption point even
if the reply races it). Raft need not accept, commit or hand out anything.

## 5. Proofs

`QuintetProofs` proves, for every finite `Server` and all values of the other constants
that satisfy `ServerAssumption`, `RoleAssumption` and `BoundAssumption`:

- **TypeCorrect**: `Spec => []TypeOK`. `TypeOK` is inductive. Its substance is that
  `nextIdx` stays positive, that `Merge` yields a log (which needs `HasPrev`), and that
  reading past a log still yields a label.
- **TransformationsInOrder**: `Spec => []OneTransformationPerTerm`. The property alone
  is not inductive: that an appended event has the greatest term is known only because
  `termTriggered` bounds every term in the queue and in `since`. `TriggerInv` adds this.
- **LeadersAreElected**: `Spec => []LeaderHasQuorum`. The counter `votesReceived` is a
  number, the property is about a set of voters. `VoteInv` connects them: between two
  servers at most one call for a vote is open; all open calls of a candidate are of one
  term; a granting reply tells of a vote in `grants`; and while a call is open,
  `votesReceived` is at most the number of voters of that term whose call is no longer
  open. Taking a reply closes one call and so makes room for one vote. `QuorumInv` then
  carries the quorum from the counter to the queued event, and, with `TriggerInv`,
  which says that `since` becomes the term of that event, to the leader.

- **NothingCommittedWaits**: `Spec => []CommittedIsApplied`. With `TypeOK` the property is
  inductive itself: whatever raises `commitIdx` ends with `applyReadyEntries`.

`OneContenderProofs`, for every cluster in which one server `l` only ever times out
(`OneStands(l)`; `l` may lose elections, stand again and be stopped, and `TermLimit[l]` is any
number):

- **LogsNeverDiverge**, **NoEntryIsLost**: `Spec => []LogsAgree`, `Spec => LogsOnlyGrow`.
  `RoleInv`: the others only follow, and every call is made by `l`. `LogInv`: what a server
  has and what a message carries, late ones included, stands in the log of `l`. The step that
  matters is `MergeStands`: at a first conflict `Merge` cuts the log, and there is none.
- **BeliefsAreTrue**: `Spec => []MatchIdxSound`. `MatchInv`: of the calls made to one follower
  at most one is awaited, and `nextIdx` is still what it was made with; so the reply that
  moves `matchIdx` tells of the follower's log as `l` sees it.
- **StateMachinesAgree**: `Spec => []AppliedAgree`. An index past the end of the log would hand
  over a destroyed entry, and what keeps `logStates` from being longer than the log is
  that `l` never becomes leader while `addLog` still owes an entry its `LogState`. That needs
  the turns of `l`: no term exceeds that of `l` (`TermInv`), so nothing makes it step down;
  and once a transformation is queued, or it leads, neither a vote nor a timeout, begun or not, is
  fresh (`TurnInv`). `CountInv` then bounds `logStates`, and `ApplyInv` says that what was handed
  over are the labels of the first entries, no two of which are the same.

- **OneLogIsReplicated**: `Spec => ImplementsReplicatedLog`. By `LogInv` the longest log is
  that of `l` (`LongestIsOurs`), so its labels grow when `l` logs a request, which `Distinct`
  says is a new one, and at no other time. Whatever applies hands over a beginning of them
  (`HandsOver`, from `Handed` of `ApplyInv`); every other step is a stutter.

`CauseProofs` is about the four promises that the code breaks (section 4). Each theorem says that
the promise is kept in all executions without one kind of step, the one that the code should
not take; so that step is the cause, and, of the steps `Quintet` has, the whole cause (section 6
says what a transformation that meets a handler might add).

- **LoweringElectsTwo**: `Spec /\ [][TermsRise]_vars => []ElectionSafety`, for any number of
  contenders. `votedFor` is not reset when a term begins; `VoteOnceInv` shows that it need
  not be: a vote in a term below a server's own is never compared again, and a greater term is
  voted in without looking at `votedFor`. One vote per term, the quorum of `LeadersAreElected`
  and `MajoritiesMeet` leave room for one leader.
- **OvercountingCommitsEarly**: with `OneStands(l)`,
  `Spec /\ [][CountsWhatWasSent]_vars => []AppliedIsReplicated`. `ReplicaInv`: a replica
  counter is at most 1 and the followers whose `matchIdx` covers the entry; what `l` has committed
  is in the logs of a majority; nobody commits or applies, and no message tells, more than `l`
  has committed. A reply for all entries that have a `LogState` raises each counter by a
  follower that was not among those counted; `MatchInv` says that these followers have the entry.
- **RefusalWedges**: `Spec /\ [][TimeoutsPass]_vars => []TimeoutAhead`, for any number of
  contenders. Only a timeout, `init` and the end of the process touch the timer (`WhatMoves`);
  a timeout that has read the term still stands for the timer (`expiring`), and one that passes
  `notify`, for a term that may be old by then, leaves an event in the queue.
- **LateEventRevives**: `Spec /\ [][DownStaysLast]_vars => []StopIsFinal`. `StopInv`: while the
  queue drains its last event is `Down`, or it is empty and the server is down. Besides a
  timeout, a vote that comes in while the queue drains can break the premise.

The premises are real: under them TLC still reaches, on instances of the size of the runs, two
leaders at a time (of two terms), services that have applied two requests each, a leader elected
at its second attempt, and a server stopped in its second term.

`EventQueueProofs`, for all values of the bounds:

- **QueueTypeCorrect**: `Spec => []TypeOK`.
- **SerialCorrect**: `Spec => ImplementsSerialQueue`. That a step of `addEvent` is one of
  `Add` needs `Accounted`: `curIdx` is the number of events executed, running and queued.
- **StopIsGraceful**: `Spec => []StoppedIsDrained`. `DrainInv` follows `stop`: once its
  wait has found the queue empty, the events due have run, but for one that may be
  running; an interrupted thread means that `stop` is joining it; and a thread at its end
  runs nothing, so when join returns that one has run, too.

`RpcServiceProofs`, for every finite set of handlers:

- **RemainingCounted**: `Spec => []RemainingIsExact`, by induction over the set of
  handlers that are counted.
- **ShutdownIsQuiet**: `Spec => []ShutdownFindsNobody`. With the count exact, finding it
  0 means that no handler is inside, and `rpcing` keeps out those that come.
- **RpcTypeCorrect**: `Spec => []TypeOK`.

`InterfaceProofs`, for any number of servers, calls, late requests and entries handed out. None
of these theorems assumes anything of Raft but that what is handed out was accepted by some server:

- **InterfaceTypeCorrect**: `Spec => []TypeOK`; in particular `target` is always a server of
  `srvList`, and no server executes more than it was handed.
- **EveryPromiseFound**: `Spec => []PromiseFound`. `PromiseInv`: a call is logged only after it
  was made, and its promise is there until its server executes it; so an entry without a
  promise was handed to the server before, and the assertion of `apply` fails for a second execution only.
- **NoCallAfterShutdown**: `Spec => []ShutdownIsQuiet`. `QuietInv`: a request with a caller has a
  thread that waits for it, and no thread is left when `Shutdown` has returned.
- **CallsCorrect**: `Spec => ImplementsCallService`. `AnswerInv`: a call without a promise that was
  made has its answer, so an execution finds its promise exactly if it is the first, and the
  answer is set once, to the result of that execution.

`HeartBeatControllerProofs`, for any number of transformations and handlers:

- **BeatTypeCorrect**: `Spec => []TypeOK`.
- **OneThreadBeats**, **ThIsFree**: `Spec => []OneBeat`, `Spec => []NotJoinable`. Neither is
  inductive. `LaunchesAlone` is the lock as it is meant: who launches does so alone, and no
  thread is alive or referred to. `QuietStep` says which steps keep it; only taking the
  lock and launching need an argument of their own, and `Join`, which may take a reference
  while another launches, but then to no thread.
- **TimerIsLeft**: `Spec => []TimerLeft`. `TimerInv` adds that only the thread `th` names may
  be alive, that an interrupted one has an actor that joins it or is about to, and that while
  `th` is free and the server is up somebody is still to start one. A `start` that finds `m`
  held leaves this to the one who holds it.

`RpcClientProofs`, for any messages and answers of the types in `RpcDefs.h`, any texts and any
number of calls:

- **OnlyTextIsRefused**: `Spec => []LogStaysReplicable`. The lemmas it rests on are about the
  operators alone: reading what was written gives the message back (`ServerIdBack`,
  `LogEntryBack`, ..., field by field, where zeros and empty strings are those that are not on
  the wire), the conversions lose nothing (`ServerIdConverted`: a port that has 16 bits survives
  being cut to them), and together they say what arrives (`AppendEntriesArrive`,
  `RequestVoteArrives`, `AddLogArrives`, `AnswerArrives`) and what parses (`LogEntryParses`).
- **ClientTypeCorrect**: `Spec => []TypeOK`. That `retryTimes` stays below 2 needs `RetryInv`: when
  an error has been told, `run` has returned, and nobody is told another.
- **RemoteCallsCorrect**: `Spec => ImplementsRemoteCall`. `CallsOk` says of each call what it
  carries at its stage: the wire of its own message, then the wire of the handler's answer, then
  the value made of it. A call is mapped to `RemoteCall` by the function of that call alone
  (`CallMapped`), so a step that changes one call is a step of that one, and every other step
  a stutter.

Only model-checked: liveness under fairness, which is out of the prover's reach. What a recursive
definition computes is, too; no module proved about has one.

## 6. Not modelled, and the plan

Not modelled: of the generated code, descriptors and registration, sizes in bytes, swapping,
reflection, merging of the request messages (which nothing calls) and the templates for
streamed and generic services; the archives in which `Serialization.h` packs arguments, which
are one text here; configuration, logging, the debug identity, `RpcClients` (its use is commented
out), `PseudoRaft`.

Nothing is persisted, so a restarted process, which numbers its requests from 0 again, is not
modelled. Races on `prms` and on `th` and `func` are resolved as if each access were atomic.

**Transformations beside handlers.** In `Quintet` a transformation (`Leave` with the `init` of the
next identity, `BecomeCandidate` above all) is one step, which excludes `RequestVote` and
`AppendEntries` handlers; only `addLog` may be between its critical sections. The code keeps out
the handlers that come later, not one that has passed the check of `paused` already
(`Raft.cpp:193`). Such a handler may raise or lower `currentTerm` and change `votedFor` between
`IdentityCandidate.cpp:108` and `:109`, or after them, while `requestVotes` reads the term anew for each message
(`:155`): a candidate may then ask for votes in a term in which it has voted for another, or ask
different servers for votes of different terms and add them up in one counter. What the runs and theorems
say of elections (`LeaderHasQuorum`, `LoweringElectsTwo`) is said of executions without this overlap.
`OneTransformationPerTerm` does not depend on it, since it is about `notify`, which has a mutex.
The regime with one contender is hardly touched: its contender receives no such message, and the others
are transformed only at the start and by `Stop`. `HeartBeatController` has
the overlap in full, for the timer.

Hazards that no property covers are listed in `PROJECT.json` with the reason. For most of them the
code goes wrong, so that a property can only exclude them by its premise and say so: a queue that is paused or
stopped twice (`queue`), the races of `resume` and `Shutdown` (`rpc`), the handler that holds
`currentTermM` (`beat`), the attempt after an error (`client`), the entry that misses its count
(`progress`), the call that Raft loses (`calls`), the append threads that crash (`overwrite`).

The generated protobuf code is about 2450 of the 3900 source lines that the definitions stand for. Only
`client` and `RpcClientProofs` depend on `RaftRpc` and `Conversion`; every other module takes a
message to arrive as it was sent, which is what `RemoteCall` says.

Plan, in order:

1. `transform` beside a `RequestVote` or `AppendEntries` handler that is already running, as a
   finer grained specification with `Quintet` as its coarse one, and the votes of one candidacy for
   several terms.
