# A TLA+ development of ServerApplication

ServerApplication is a C++ chat and game server on Boost.Asio. Clients talk to
it over TCP (length-prefixed JSON) and UDP; it talks to a DB middleware over one
TCP connection. One `io_context` is run by several threads, so everything below
happens concurrently unless a strand or a mutex says otherwise. The modules here
model the parts with state that several threads, callbacks or messages reach;
TLC checks them on small instances and TLAPS proves the central results for all
values of the constants.

Paths are relative to `src/ServerApplication/`. `PROJECT.json` maps every
definition to the lines it stands for.

## The system

| part | state | operations | meets |
|---|---|---|---|
| `SessionPool` | `pool_`, `reusable_indices_`, `available_index_set_`, `mutex_` | `acquire`, `release` | Server, DataHandler, Session |
| `Session` life cycle | `life_state_`, `state_`, `session_id_`, `generation_` | `reset`, `set_active`, `close_session`, `cleanup` | every handler, every sweep |
| `SessionManager` | sharded `session_buckets_`, `nickname_index_` | add, remove, find, register, sweep of inactive sessions | LoginFlow, DataHandler |
| `Server` | acceptor, `session_counter_` | accept loop | pool, DataHandler |
| `DataHandler` | zones, UDP endpoint map, timers | add/remove session, keepalive and unauthenticated sweeps, zone assignment, UDP receive | all |
| `LoginFlow`, `login_handler`, `logout_handler` | the login under way | request to the middleware, eviction of namesakes, registration, zone | router, manager, zone |
| `Zone`, `ZoneManager` | `sessions_` per zone | add, remove, UDP broadcast | LoginFlow, DataHandler |
| `DBmwRouter` | `pending_`, counters | send with promise or callbacks, reply, timeout, retry, resend | LoginFlow, client |
| `DBMiddlewareClient` | socket, `write_queue_`, flags, timers | connect, reconnect, read, write, heartbeat, stop | router, ack handlers |
| `Session` writing | `write_queue_`, overflow count | `post_write`, `enqueue_write`, `do_write_queue` | every sender |
| `Session` reading, `MessageBufferManager` | `buffer_`, task queue | `do_read`, `extract_message`, `post_task` | dispatcher |
| `MessageDispatcher`, chat handlers | a constant table | format and `post_write` | Session |
| UDP: `UDPManager`, `on_udp_receive`, `Udpregister_handler` | `udp_endpoint_to_session_`, endpoint and token of a session, sharded limiter, token bucket | receive, check, register, broadcast, expire | DataHandler, Session, Zone |

What makes it hard:

* Session objects are never destroyed but recycled. Pointers kept by sweeps,
  timers, logins under way and the nickname index outlive the connection they
  were taken for, and most of what they call checks no generation.
* `close_session()` runs on any thread, takes several locks one after the other
  and touches the object again after the pool has it back.
* The middleware may answer late, twice or never; requests are retried.
* UDP packets find their session by nickname and change its endpoint under one
  lock and outside it, while TCP handlers close and recycle the session.
* The client to the middleware has several operations outstanding, each of which
  may fail on its own and ask for a reconnect.

`PROJECT.json` lists the hazards line by line, with the properties for each.

## Modules

**SessionLifecycle** - `SessionPool`, the `life_state_` word, the buckets of
`SessionManager`, the accept loop, the sweeps, and the part of a login that adds
the session to the manager again. A session is its index in the pool. Threads
are the acceptor and workers; each has a program counter through `acquire`
(Accept, Activate, AcquireCleanup under `pool_mutex`), `close_session`
(CloseBegin, CloseSocket, FinalizeClose, RemoveSession, ReleaseCheck,
ReleaseReturn, CloseCleanup) and a login's completion. HandlerClose lets any
handler close any session that was ever used, which covers stale read, write and
timer callbacks. `granted` and `late` are history.

**SessionPoolSpec** - what the pool promises without threads, locks, queue order,
duplicate check or life states: a connection is granted at most one session, a
free one before a new one; the pool grows one by one up to its maximum; only a
free session is granted and only one that is out comes back. SessionLifecycle
implements it with `free` as the range of `reusable_indices_`, and does so even
after a late login reply: the duplicate check turns the second release into a
stutter.

**RequestReply**, **DBmwRouter** - the promise of the router to its callers, and
the request table that implements it. A strand handler is one action; the resend
of `schedule_retry`, which runs outside the strand, is two. Transmitted copies
are counted and answered at any time or never.

**DBMiddlewareClient** - the connection to the middleware. Its handlers run on
one strand; only the catch blocks of `send_json` close the socket on the caller's
thread (SendFails), which the model does between two handlers. What is
outstanding is a bag of operations and queued handlers, and `socket_.close()`
turns live operations into queued errors without recalling completions that are
queued already; of these the connect alone looks at the socket again and reports
an error if it was closed. The two ack handlers are part of it.

**WriteQueue** - the outgoing messages of one session object over successive
connections: functions of `post_write`, the queue with its drop-oldest policy,
writes tagged with connection and generation, and the second `cleanup()` of a
close that may hit the next connection (`tampered` records that a step of an
earlier connection did). `post_write` dispatches: called by another thread its
function is queued on the strand of the connection (Post, RunPost), called in a
handler of that strand it runs at once, before what is queued (PostInline). A
login that completes late makes `state_` Ready again on a closed session
(`revived`): `do_write_queue` then writes to the closed socket.

**MessageBuffer** - `append`, `clear` and `extract_message` as operators: what is
next in a buffer, the resynchronisation, and the reference `Messages(stream)`,
which gets the stream in one piece. Prefixes have two digits to a small base
instead of four bytes, and the limits are scaled with them. It has no state.

**ReadLoop** (extends MessageBuffer) - the incoming side of one session object
over successive connections: `start`, `do_read`, `post_task`, `run_next_task`,
and the completion handler, whose steps are told apart where another thread can
come in between (dispatch, close, cleanup, next task). Each connection has a
strand; reads and posted functions of an earlier one run among those of the
current one. A dispatch may return, close the session or throw. A late login
lets `do_read` read again on a closed session (`revived`, as in WriteQueue).
`tampered` records that a step of an earlier connection hit the open one.

**UdpReceive** (with **MCUdpReceive** for symmetry) - the receive chain of
`UDPManager`, the checks of `on_udp_receive` in their order (global limit,
session by nickname, token, its age, endpoint, bucket of the session), the three
steps of a registration (snapshot of the previous endpoint, map under its lock,
binding after it), `Udpregister_handler`, and what login, close and recycling do
to endpoint, token and map meanwhile. `holder` (the connection and endpoint a
token was issued at), `entered` (the connection last entered in the map for an
endpoint, which is not always the last that registered it), `registered`,
`passed` and `charged` are history; `stray` records that a registration hit a session that
is not open under the nickname, that a close met a packet under way, or that a
trailing `cleanup()` hit the next user.

**LoginFlow** (with **MCLoginFlow** for symmetry) - logins on recycled sessions:
nickname index, eviction, registration and the default zone, one step per lock.
Closing a session is one step here.

**SessionLifecycleProofs**, **SessionOwnershipProofs** (which extends it),
**DBmwRouterProofs**, **DBMiddlewareClientProofs**, **WriteQueueProofs**,
**ReadLoopProofs**, **LoginFlowProofs**, **UdpReceiveProofs** - the theorems. Each
extends the module it is named after; in each the inductive invariant comes
first, then the lemmas on data, one lemma per action, and the theorems.

## Runs

| run | instance | checks |
|---|---|---|
| `session_lifecycle` | acceptor, 2 workers, pool growing from 0 to 1, 3 connections, fair | TypeOK, FreeListSound, EntriesMatchGrants, SingleOwner, NeverWedged, RemovedReturns, ImplementsPool |
| `db_router` | 2 requests, 2 retries, 2 exceptions, fair | TypeOK, Watched, SendBudget, CountersBalance, ImplementsRequestReply, Settles |
| `db_client` | 2 connections, 1 refused login, 1 request, limit of 2 heartbeats, fair | TypeOK, OneWrite, NotStranded, HeartbeatAlive, StaleNoticed, RetriesForever |
| `write_queue` | queue of 2, overflow limit 2, 4 messages, 2 connections | TypeOK, OneWriter, KeepsWriting, InOrder, LossIsOverflow |
| `read_loop` | 6 digits to base 2, packets up to 2, scan 2, buffer 5, reads up to 3, task queue 1, 2 connections, 1 close under way when a revived session is closed, fair | TypeOK, OneLoop, ChunkIndependent, Bounded, DropCloses, KeepsListening |
| `login_flow` | 2 sessions, 2 nicknames, 2 threads, zone for 1, 3 connections, 3 logins | TypeOK, UniqueLogin, ZoneSound |
| `udp_receive` | 2 sessions, 2 nicknames, 2 endpoints, 2 shards, limit of 2 a second, bucket of 2 refilled by 1 a second, 2 ticks a second, tokens of 0 seconds, 2 connections, 3 packets, 2 ticks | TypeOK, EndpointsAgree, DoubleChecked, Audience, GlobalLimit, BucketLimit |

Why these bounds. A stale pointer needs one reuse of a session to do harm, and
three connections on one object give two; two workers are needed for two
concurrent closes of it. A pool that starts empty and may hold one session grows,
refuses and recycles; that one session is not taken for another in a larger pool
is what the proofs show, for every size. Two requests let a late reply to one
meet the timeout of the other, two exceptions let resends overlap. Two
connections let every handler of the first run during the second. Four messages
overflow a queue of two up to its limit, and let two posted on the strand
overtake two that are queued. Six digits to base 2 hold every kind of
prefix (zero, valid, too long), noise longer than the scan and a message after
it, or fill a buffer of five. A zone for one member makes two sessions compete
for it. Three packets are a registration, one at another endpoint or by another
session, and a packet that uses a token; two ticks make one second pass and one
boundary between half seconds, where the bucket gets no token; two shards and a
limit of two let one thread see the count of another. All constants that only
bound a model are named `Max...` in the module and marked as such (`MaxSize` and
`MAX_PACKET_SIZE`, `ABSOLUTE_MAX_BUFFER` are the code's own).

No run checks deadlock: every model may stop, because connections, messages and
requests are bounded and a server without traffic does nothing.

Five runs expect a violation; each shows a disagreement with something the
repository says:

* `double_release` - the assertion in `SessionPool.cpp:106` can fail: a login
  reply that arrives after its session was closed re-registers the session
  (`LoginFlow.cpp:117`), and the next close releases it a second time. SingleOwner
  therefore ends where `late` begins; FreeListSound holds regardless.
* `router_timeout` - a request made with callbacks that times out is erased
  without calling `on_error` (`DBmwRouter.cpp:310`), which `LoginFlow.cpp:83`
  waits for. The fairness of `FairSpec` is assumed: the timer fires, the handler
  runs, and still nobody is told.
* `client_wedged` - a failed write leaves `write_in_progress_` set and the frame
  queued (`DBMiddlewareClient.cpp:214`); after the reconnect nothing is written,
  the login of `DBMiddlewareClient.cpp:91` included.
* `foreign_message` - a message posted to one connection reaches the next one on
  the same object: the function in `Session.cpp:102` checks no generation,
  against README.md:915. (README.md:917, that messages are transmitted one by
  one, fails too once a trailing `cleanup()` empties the queue under a write;
  OneWriter states what remains true.)
* `stale_nickname` - a nickname outlives its session in the index
  (`unregister_nickname` has no caller, against README.md:953); the next login
  under it closes the unrelated user of the recycled object.

Two further disagreements show in UdpReceive and have no run of their own. Two
sessions register one endpoint, then the first registers it again: it is accepted
and gets the newest token, but because its own endpoint did not change
(`DataHandler.cpp:382`) the map goes on leading to the second, or nowhere once
that one closed, against the replace policy of `DataHandler.cpp:412`. And a
registration that meets the close of its session enters it in the map after
`remove_session()` looked for its entry, so that `cleanup()` resets an endpoint
that is still in the map, against `Session.cpp:461`. EndpointsAgree is stated so
that it holds of the first and ends (`stray`) at the second.

Every property of a passing run has a mutant: a definition changed the way a
plausible bug would change it, under which TLC reports the property violated.

## Fairness

* SessionLifecycle: weak fairness for the steps inside `mutex_`, strong fairness
  for the thread that waits to lock it in `release()`. A thread inside the
  section is runnable; the strong part says that a thread waiting for a
  `std::mutex` is not passed over for ever. Nothing is assumed of connections,
  sweeps or replies.
* DBmwRouter: armed timers fire and the strand runs queued timeout handlers.
  Replies are never assumed.
* ReadLoop: strands run what is queued on them and the accept handler goes on
  after `acquire()`. Nothing is assumed of clients, timers or other threads.
* DBMiddlewareClient: the strand runs queued handlers, the reconnect timer runs
  out, and the kernel ends a connection attempt one way or the other.

## Proofs

Every invariant, action property and refinement of the passing runs is a theorem:
TLAPS proves it for every number of threads, sessions, connections, messages,
requests and packets and for every limit, rate and stream, from the `ASSUME` of
each module (which TLC evaluates in the runs). Hardly one is inductive by
itself; `IInv` of each module is, and the theorems named `...Inductive` state it.

* `SessionLifecycleProofs`: TypeOK, FreeListSound, EntriesMatchGrants. None is
  inductive. IInv adds what the program counters say of a thread's locals
  (PcOK), that `pool_mutex` belongs to the thread in its section (MutexOK), that
  ids, grants and entries correspond and ids are fresh (IdsOK), and that the
  index a releasing thread is about to append is not in the set it checked
  before (FreeOK). One lemma per action.
* `SessionOwnershipProofs`: NeverWedged, by showing that a step leaves a session
  closable, or a closer at work on it, or neither touched (Kept); and
  SingleOwner on top of IInv. `PoolImplements`, `Spec => ImplementsPool`, takes
  from IInv what makes Accept a Take or a Grow (the head of the queue is free,
  the connection has no session yet) and ReleaseReturn a Give; every other action
  leaves pool size, queue and grants alone.
* `DBmwRouterProofs`: TypeOK, Watched, SendBudget, CountersBalance, and
  `Spec => ImplementsRequestReply`. IInv adds that nobody was answered before the
  request was settled and that an unregistered request has nothing under way
  (Quiet). CountersBalance uses the library's facts on cardinality.

* `DBMiddlewareClientProofs`: TypeOK, OneWrite, NotStranded, HeartbeatAlive,
  StaleNoticed. IInv adds that a connected client has a read that is outstanding
  or has its handler queued, and that one still waiting is on an open socket
  (Reading): this is what makes the next failure known to somebody. The bag of
  operations has lemmas of its own (adding, removing, the errors of a close).
* `WriteQueueProofs`: TypeOK, OneWriter, KeepsWriting, InOrder, LossIsOverflow.
  IInv adds that the write whose generation counts has its message to pop
  (Single), what becomes of the socket of a closed session (Dead), that nothing
  belongs to a connection still to come (Future), that messages are numbered as
  they are posted and queued functions are never of inline messages (Numbered),
  and for a connection that earlier ones left alone: where its messages are on
  strand, queue, write and wire (Undisturbed), in what order (WireOrder,
  Pipeline), and how many (Ledger, Fresh:
  accepted is received plus overflowed plus queued, where a message that was sent
  stays in the queue until the handler pops it). The order of InOrder, Precedes,
  is not transitive - of two messages one may have overtaken a third and the
  other not - so WireOrder and Pipeline relate every pair of messages that are
  somewhere on the way, not neighbours; what makes it hold is that everything
  ahead of a queued function was posted before it or inline. Slack - the overflow that reaches
  its limit leaves room in the queue - is where the proof failed at first: with
  `max_write_queue_size` 1, for any overflow limit, an overflow whose
  `close_session()` is refused during `acquire()` empties the queue under the write
  in flight, and TLC shows OneWriter violated. The assumption is therefore a limit
  of at least 2 (the default, and `config.json`, is 100; nothing in the code
  refuses 1).
* `LoginFlowProofs`: TypeOK, UniqueLogin, ZoneSound. IInv adds that ids are given
  out once and lead to their session (Identified), that a login is of a session
  that had an id (Asked), and that what a completion has done so far still stands
  at its next step, unless its session closed meanwhile (Standing).
* `ReadLoopProofs`: TypeOK, OneLoop, Bounded, DropCloses and ChunkIndependent. For
  the first four, Looping says in which of its phases the loop of the open
  connection is, and with which flags, reads and posted functions; Dropping that a
  cleared buffer is followed by the close; Future that later strands are empty.
  ChunkIndependent adds Parsing: of the part `s` of the stream that handlers have
  seen, the messages that end before a position `k` were dispatched, the buffer is
  the rest of `s` from `k` (or from the next start, after a resync), and between
  reads no message is complete in it. The lemmas below it say that these facts
  about `s` stay true when more arrives, that one `extract_message` is one step of
  the reference, candidates of the resync included, and that `Messages` is the
  only list that proceeds by such steps.
* `UdpReceiveProofs`: TypeOK, EndpointsAgree, Audience, BucketLimit, the action
  property DoubleChecked, and GlobalLimit. IInv adds what is known of the packet
  between two steps (Chain, Counting), that a token belongs to the connection and
  endpoint of its session except while the next one is drawn (Issued), that
  connections have distinct numbers (Numbered), the balance of a bucket with its
  last refill (Filled: rounding down a refill never gains a token) and, until a
  step goes astray, how a half-done registration, the map and the sessions relate
  (Agreed). EndpointsAgree is about the entries that were made, by `entered`; that
  the last to register has the entry is false (see Runs).
  GlobalLimit adds Passing: what passed this second is at most the sum
  of the shards' counts of this second. It needs finitely many shards
  (`udp_shard_count` in the code), an assumption of the module.

Two of these proofs need induction over data: the sum over the shards, and the
recursion of `Messages`. The induction theorems of the library take an operator,
which the provers cannot instantiate; the proofs state the property as a set of
numbers (NumbersInduction) or of subsets (SubsetInduction) instead, from the
well-foundedness of the natural numbers, and show that the recursive functions
exist and unfold.

Only model-checked: the four liveness properties RemovedReturns, Settles,
RetriesForever and KeepsListening, since the prover has neither fairness nor
`ENABLED`; and the five violations, which are traces of an instance.

## Abstractions

* Memory is sequentially consistent and a section under one lock is one step,
  except where it touches words others touch without that lock.
  `SessionManager::add_session` reads the id and inserts in one step.
* The data race on `write_queue_` between a handler and an off-strand `cleanup()`
  is modelled between handlers, not inside one; the dangling prefix buffer of
  `do_write_queue` and the erased entry a resend may use (`dangling`) are noted,
  not explored: their outcome is undefined.
* `close_session()` is two steps in ReadLoop and WriteQueue (up to the pool's
  `cleanup()`, and the trailing one), four in UdpReceive, one in LoginFlow.
  SessionLifecycle has all of its interleavings. A further close of a session that
  is closed only cleans up again; ReadLoop has it, WriteQueue leaves it out.
* `on_udp_receive` looks up the session and checks token, age, endpoint and bucket
  in one step (OnUdpReceive); the session may be recycled between them in the
  code, which then refuses or goes on to the dispatch, as the model does when it
  is recycled right after. DoubleChecked speaks of the check, not of the handler
  that runs later, and `holder` of the connection whose object was registered,
  not of the sender.
* The race of `send_json`'s catch blocks with a handler of the client that uses the
  socket at that moment is undefined and not modelled.
* What a step of an earlier connection does to the next one is explored and
  recorded (`tampered`, `stray`, `late`); the properties that such a step really
  breaks speak of connections that were left alone, and say so. So do UniqueLogin
  and ZoneSound of logins whose connection was not closed under them (`raced`).
  These exceptions are hazards without a property, or with one that shows the
  damage (NoDoubleRelease, OwnMessagesOnly); the notes of the
  hazards in `PROJECT.json` say which.
* `remove_session` reads the endpoint of a session a second time after it locked
  the map; if a `cleanup()` emptied it meanwhile the read is undefined, and
  UdpReceive lets it yield any endpoint.
* A UDP token is never drawn twice. Empty, oversized and unparsable packets are
  refused before any state modelled here changes.
* Message contents, formatting, logging, metrics and the lengths of delays are
  left out. Time is "the timer fired".

## Not modelled

* `MessageDispatcher` and the chat, broadcast and zone broadcast handlers: a
  constant table, reads of the sessions and calls of `post_write` or
  `async_send_to`. How a dispatch ends is in ReadLoop and UdpReceive, who is
  addressed by `udp_broadcast` is in Audience, the queue behind `post_write` is
  WriteQueue.
* `expire_stale_udp_endpoints`: it acts on sessions with `closed_` set, which
  nothing in the program sets, so it never changes the map.
* `unregister_nickname` and `cleanup_expired_nicknames` have no caller. The first
  calls the second under `nickname_mutex_`, which the second locks again.
* The map of bad UDP senders, the packet counters, the 5-second request timers of
  the client and the monitor timer feed only the log or an alert.
* Configuration, start-up, logging, allocation counters, HMAC and environment
  helpers.
* `json.hpp` and `generated/wire.pb.*`, which are five sixths of the lines of the
  repository: vendored and generated. The map covers about two fifths of the
  rest; what remains of it is the above, declarations and log statements.

## Plan

Done, in this order: SessionLifecycle and its proofs; RequestReply, DBmwRouter
and its proofs; DBMiddlewareClient; WriteQueue; LoginFlow; MessageBuffer and
ReadLoop; UdpReceive; SessionPoolSpec, its run and its proof. Then the proofs of the other components:
DBMiddlewareClient, WriteQueue, LoginFlow, ReadLoop, UdpReceive, and last the two
that need induction over data, GlobalLimit and ChunkIndependent.

Left: the hazards without a property, listed in `PROJECT.json` with the reason
for each; nothing that a run checks and the prover can state is without a proof.
