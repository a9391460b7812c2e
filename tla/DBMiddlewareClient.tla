--------------------------- MODULE DBMiddlewareClient ---------------------------
(***************************************************************************)
(* DBMiddlewareClient: the connection to the DB middleware, with its       *)
(* reconnect timer, heartbeat and write queue.                             *)
(*                                                                         *)
(* Every handler runs on the client's strand and is one action.  Only the  *)
(* catch blocks of send_json close the socket on the caller's thread; they *)
(* are taken between two handlers.  What is outstanding - asynchronous     *)
(* operations of the socket, timers, and handlers queued on the strand -   *)
(* is the bag `ops`; closing the socket turns its live operations into     *)
(* handlers queued with an error, and cannot recall a completion that is   *)
(* queued already.                                                         *)
(*                                                                         *)
(* Left out: the delay of the reconnect timer, server_login_sent_ (always  *)
(* cleared right before it is tested), the request timers and their        *)
(* timeout_count_ (which only feed an alert), and how bytes are split: one *)
(* read brings one message.                                                *)
(***************************************************************************)
EXTENDS Integers, Sequences

CONSTANTS
  heartbeat_miss_limit,
  MaxConnects,  \* bounds of the model: connections the middleware accepts,
  MaxNG,        \* logins it refuses,
  MaxData,      \* frames other parts of the server send,
  MaxQueue      \* frames queued when the heartbeat timer runs out

ASSUME ClientAssumption ==
  /\ heartbeat_miss_limit \in Nat \ {0}
  /\ MaxConnects \in Nat /\ MaxNG \in Nat /\ MaxData \in Nat /\ MaxQueue \in Nat

Frames == {"login", "keepalive", "data"}

\* Live operations, then handlers in the strand's queue.
Ops == {"resolve", "connect", "read", "write", "reconnect_timer", "heartbeat_timer",
        "connect_ok", "connect_failed", "read_ok", "read_failed", "write_ok", "write_failed",
        "reconnect_due", "heartbeat_due"}

VARIABLES
  stopping, connected, authed,
  missed,       \* missed_heartbeat_
  write_queue, write_in_progress,
  socket,       \* socket_: "closed", "connecting" or "open"
  ops,          \* how many of each operation are outstanding
  \* the middleware's end of the current connection
  received,     \* frames it received and did not answer
  connects, ngs, data    \* counters of the bounds

flagVars  == <<stopping, connected, authed>>
queueVars == <<write_queue, write_in_progress>>
peerVars  == <<received, connects, ngs, data>>
vars == <<flagVars, queueVars, socket, ops, peerVars, missed>>

-----------------------------------------------------------------------------
(* The bag of outstanding operations.                                      *)

Add(o, k)  == [o EXCEPT ![k] = @ + 1]
Less(o, k) == [o EXCEPT ![k] = @ - 1]

\* Mutant: a wait that runs is not replaced.
ArmAnother(o, timer) == Add(o, timer)

\* expires_after and async_wait: a wait that runs is replaced.
Arm(o, timer) == [o EXCEPT ![timer] = 1]

\* socket_.close(): the live operations fail.
Abort(o) ==
  [o EXCEPT !["connect"] = 0, !["connect_failed"] = @ + o["connect"],
            !["read"] = 0,    !["read_failed"] = @ + o["read"],
            !["write"] = 0,   !["write_failed"] = @ + o["write"]]

\* An operation started on a socket that is not connected fails at once.
StartRead(o)  == Add(o, IF socket = "open" THEN "read" ELSE "read_failed")
StartWrite(o) == Add(o, IF socket = "open" THEN "write" ELSE "write_failed")

-----------------------------------------------------------------------------
Init ==
  /\ stopping = FALSE /\ connected = FALSE /\ authed = FALSE
  /\ missed = 0
  /\ write_queue = <<>> /\ write_in_progress = FALSE
  /\ socket = "closed"
  /\ ops = [k \in Ops |-> IF k = "resolve" THEN 1 ELSE 0]    \* start()
  /\ received = <<>>
  /\ connects = 0 /\ ngs = 0 /\ data = 0

\* Mutant: the reconnect timer is only armed while the socket is open.
ScheduleIfOpen(o) == IF stopping \/ socket = "closed" THEN o ELSE Arm(o, "reconnect_timer")

\* schedule_reconnect, its effect on ops.
schedule_reconnect(o) == IF stopping THEN o ELSE Arm(o, "reconnect_timer")

\* close_socket; write_queue_ and write_in_progress_ stay as they are.
close_socket ==
  /\ socket' = "closed"
  /\ connected' = FALSE
  /\ UNCHANGED queueVars

\* close_socket(); schedule_reconnect(), at the end of a handler taken from o.
CloseAndReconnect(o) ==
  /\ close_socket
  /\ ops' = schedule_reconnect(Abort(o))

-----------------------------------------------------------------------------
(* Sending.                                                                *)

\* send_framed on a connected client, its effect on the queue ...
Push(frame) ==
  /\ write_queue' = Append(write_queue, frame)
  /\ write_in_progress' = (write_in_progress \/ write_queue = <<>>)

\* Mutant: every push starts a write.
FlushAlways(o) == StartWrite(o)

\* ... and on ops: only a push to an idle queue starts a write.
Flush(o) ==
  IF write_queue = <<>> /\ ~write_in_progress THEN StartWrite(o) ELSE o

\* The router sends a request; without a connection it is dropped.
SendData ==
  /\ data < MaxData /\ data' = data + 1
  /\ \/ connected /\ Push("data") /\ ops' = Flush(ops)
     \/ ~connected /\ UNCHANGED <<queueVars, ops>>
  /\ UNCHANGED <<socket, flagVars, received, connects, ngs, missed>>

\* send_json, its catch blocks: whatever was thrown ends the connection, too.
SendFails ==
  /\ data < MaxData /\ data' = data + 1
  /\ CloseAndReconnect(ops)
  /\ UNCHANGED <<stopping, authed, received, connects, ngs, missed>>

\* The handler of async_write that succeeded: pop, then the next frame.
WriteDone ==
  LET o == Less(ops, "write_ok") IN
  /\ ops["write_ok"] > 0
  /\ write_queue' = Tail(write_queue)
  /\ write_in_progress' = (write_queue' # <<>>)
  /\ ops' = IF write_queue' = <<>> THEN o ELSE StartWrite(o)
  /\ UNCHANGED <<flagVars, socket, peerVars, missed>>

\* The handler of async_write that failed: the frame stays at the front and
\* write_in_progress_ stays set.
WriteError ==
  /\ ops["write_failed"] > 0
  /\ CloseAndReconnect(Less(ops, "write_failed"))
  /\ UNCHANGED <<stopping, authed, peerVars, missed>>

-----------------------------------------------------------------------------
(* Connecting.                                                             *)

\* async_connect closes the socket before it opens it again.
ResolveDone ==
  /\ ops["resolve"] > 0
  /\ \/ /\ socket' = "connecting"
        /\ ops' = Add(Abort(Less(ops, "resolve")), "connect")
        /\ UNCHANGED connected
     \/ /\ connected' = FALSE
        /\ UNCHANGED socket
        /\ ops' = schedule_reconnect(Less(ops, "resolve"))
  /\ UNCHANGED <<stopping, authed, queueVars, peerVars, missed>>

\* The connect handler: log in, start to read, start the heartbeat.  It looks
\* at neither stopping_ nor the counters of the last connection.
ConnectDone ==
  /\ ops["connect_ok"] > 0 /\ socket # "closed"
  /\ connected' = TRUE /\ authed' = FALSE
  /\ Push("login")
  /\ ops' = Arm(StartRead(Flush(Less(ops, "connect_ok"))), "heartbeat_timer")
  /\ UNCHANGED <<stopping, socket, peerVars, missed>>

\* The attempt failed, or the socket was closed after it succeeded.
ConnectFailed(k) == ops[k] > 0 /\ (k = "connect_failed" \/ (k = "connect_ok" /\ socket = "closed"))

\* Mutant: a failed connect does not schedule the next one.
GiveUp ==
  \E k \in {"connect_failed", "connect_ok"} :
    /\ ConnectFailed(k)
    /\ connected' = FALSE
    /\ ops' = Less(ops, k)
    /\ UNCHANGED <<stopping, authed, queueVars, socket, peerVars, missed>>

ConnectError ==
  \E k \in {"connect_failed", "connect_ok"} :
    /\ ConnectFailed(k)
    /\ connected' = FALSE
    /\ ops' = schedule_reconnect(Less(ops, k))
    /\ UNCHANGED <<stopping, authed, queueVars, socket, peerVars, missed>>

\* The handler of the reconnect timer: do_connect.
Reconnect ==
  LET o == Less(ops, "reconnect_due") IN
  /\ ops["reconnect_due"] > 0
  /\ ops' = IF stopping THEN o ELSE Add(o, "resolve")
  /\ UNCHANGED <<flagVars, queueVars, socket, peerVars, missed>>

-----------------------------------------------------------------------------
(* Reading.                                                                *)

\* The message that a read brought was an answer to this frame.
Answer(frame) ==
  \E i \in DOMAIN received :
    /\ received[i] = frame
    /\ received' = [j \in 1 .. Len(received) - 1 |-> received[IF j < i THEN j ELSE j + 1]]

\* Mutant: do_read_some also returns when the socket is not open.
ReadOnIfOpen(o) == IF connected /\ socket = "open" THEN StartRead(o) ELSE o

\* do_read_some at the end of a read handler.
ReadOn(o) == IF connected THEN StartRead(o) ELSE o

\* The answer to our login, OK.
OnServerLoginAck == Answer("login") /\ authed' = TRUE /\ UNCHANGED missed

\* The answer to a heartbeat: note_heartbeat_ack.
OnServerKeepAliveAck == Answer("keepalive") /\ missed' = 0 /\ UNCHANGED authed

\* A message of another kind changes nothing here.
ReadMessage ==
  /\ ops["read_ok"] > 0
  /\ ops' = ReadOn(Less(ops, "read_ok"))
  /\ OnServerLoginAck \/ OnServerKeepAliveAck \/ UNCHANGED <<received, authed, missed>>
  /\ UNCHANGED <<socket, stopping, connected, queueVars, connects, ngs, data>>

\* OnServerLoginAck, not OK: stop(), then start(), inside the read handler.
\* do_read_some then sees connected_ false and returns.
LoginRefused ==
  /\ ops["read_ok"] > 0 /\ ngs < MaxNG
  /\ Answer("login") /\ ngs' = ngs + 1
  /\ authed' = FALSE /\ stopping' = FALSE
  /\ close_socket
  /\ ops' = Add([Abort(Less(ops, "read_ok")) EXCEPT
                   !["reconnect_timer"] = 0, !["heartbeat_timer"] = 0], "resolve")
  /\ UNCHANGED <<connects, data, missed>>

\* An error, or a frame whose length makes no sense.
ReadError ==
  \E k \in {"read_failed", "read_ok"} :
    /\ ops[k] > 0
    /\ CloseAndReconnect(Less(ops, k))
    /\ UNCHANGED <<stopping, authed, peerVars, missed>>

-----------------------------------------------------------------------------
(* The heartbeat, and stop().                                              *)

\* Mutant: a heartbeat that was missed does not start the timer again.
ForgetHeartbeat(o) == o

arm_heartbeat_timer(o) == Arm(o, "heartbeat_timer")

Heartbeat ==
  LET o == Less(ops, "heartbeat_due") IN
  /\ ops["heartbeat_due"] > 0
  /\ \/ /\ stopping
        /\ ops' = o
        /\ UNCHANGED <<connected, queueVars, socket, missed>>
     \/ /\ ~stopping /\ ~(connected /\ authed)
        /\ ops' = arm_heartbeat_timer(o)
        /\ UNCHANGED <<connected, queueVars, socket, missed>>
     \/ /\ ~stopping /\ connected /\ authed
        /\ Push("keepalive")
        /\ missed' = missed + 1
        /\ \/ /\ missed' < heartbeat_miss_limit
              /\ UNCHANGED <<socket, connected>>
              /\ ops' = arm_heartbeat_timer(Flush(o))
           \/ /\ missed' >= heartbeat_miss_limit
              /\ socket' = "closed" /\ connected' = FALSE
              /\ \/ ops' = schedule_reconnect(Abort(Flush(o)))
                 \/ /\ Flush(o)["write"] > 0         \* written before it is aborted
                    /\ ops' = schedule_reconnect(Abort(Add(Less(Flush(o), "write"), "write_ok")))
  /\ UNCHANGED <<stopping, authed, peerVars>>

\* stop(), at shutdown.
Stop ==
  /\ ~stopping
  /\ stopping' = TRUE
  /\ close_socket
  /\ ops' = [Abort(ops) EXCEPT !["reconnect_timer"] = 0, !["heartbeat_timer"] = 0]
  /\ UNCHANGED <<authed, peerVars, missed>>

-----------------------------------------------------------------------------
(* The kernel, the clock and the middleware.                               *)

Complete(k, done) == ops' = Add(Less(ops, k), done)

Connects ==
  /\ ops["connect"] > 0
  /\ \/ /\ connects < MaxConnects /\ connects' = connects + 1
        /\ socket' = "open" /\ received' = <<>>
        /\ Complete("connect", "connect_ok")
     \/ /\ Complete("connect", "connect_failed")
        /\ UNCHANGED <<socket, received, connects>>
  /\ UNCHANGED <<flagVars, queueVars, ngs, data, missed>>

Transfers ==
  /\ \/ ops["read"] > 0 /\ UNCHANGED received
        /\ (Complete("read", "read_ok") \/ Complete("read", "read_failed"))
     \/ /\ ops["write"] > 0
        /\ \/ received' = Append(received, Head(write_queue)) /\ Complete("write", "write_ok")
           \/ UNCHANGED received /\ Complete("write", "write_failed")
  /\ UNCHANGED <<flagVars, queueVars, socket, connects, ngs, data, missed>>

ReconnectTimer ==
  /\ ops["reconnect_timer"] > 0
  /\ Complete("reconnect_timer", "reconnect_due")
  /\ UNCHANGED <<flagVars, queueVars, socket, peerVars, missed>>

HeartbeatTimer ==
  /\ ops["heartbeat_timer"] > 0 /\ Len(write_queue) < MaxQueue
  /\ Complete("heartbeat_timer", "heartbeat_due")
  /\ UNCHANGED <<flagVars, queueVars, socket, peerVars, missed>>

-----------------------------------------------------------------------------
Handler ==
  \/ WriteDone \/ WriteError \/ ResolveDone \/ ConnectDone \/ ConnectError \/ Reconnect
  \/ ReadMessage \/ LoginRefused \/ ReadError \/ Heartbeat

Environment == Connects \/ Transfers \/ ReconnectTimer \/ HeartbeatTimer

Next == SendData \/ SendFails \/ Stop \/ Handler \/ Environment

Spec == Init /\ [][Next]_vars

\* The strand runs queued handlers, timers run out, and the kernel ends a
\* connection attempt one way or the other.
Fairness ==
  /\ WF_vars(WriteError) /\ WF_vars(ReadError) /\ WF_vars(ConnectDone) /\ WF_vars(ConnectError)
  /\ WF_vars(Reconnect) /\ WF_vars(ReconnectTimer) /\ WF_vars(Connects)

FairSpec == Spec /\ Fairness

-----------------------------------------------------------------------------
(* Properties.                                                             *)

Some(K) == \E k \in K : ops[k] > 0

Writes == ops["write"] + ops["write_ok"] + ops["write_failed"]

\* Types; each timer has at most one wait that can still run out.
TypeOK ==
  /\ stopping \in BOOLEAN /\ connected \in BOOLEAN /\ authed \in BOOLEAN
  /\ missed \in Nat
  /\ write_queue \in Seq(Frames) /\ write_in_progress \in BOOLEAN
  /\ socket \in {"closed", "connecting", "open"}
  /\ ops \in [Ops -> Nat]
  /\ ops["reconnect_timer"] <= 1 /\ ops["heartbeat_timer"] <= 1
  /\ received \in Seq(Frames)
  /\ connects \in Nat /\ ngs \in Nat /\ data \in Nat

\* Across reconnects and errors at most one write is outstanding, and the frame
\* it writes stays at the front of write_queue_ until its handler runs: frames
\* are neither interleaved on the socket, nor popped unsent, nor popped from an
\* empty queue.
OneWrite ==
  /\ Writes <= 1
  /\ Writes = 1 => write_in_progress /\ write_queue # <<>>

\* A client that is neither connected nor stopped has something outstanding
\* that leads to another attempt, whichever handlers closed the socket and in
\* which order they ran.
NotStranded ==
  ~connected /\ ~stopping =>
    Some({"resolve", "connect", "connect_ok", "connect_failed", "read_failed", "write_failed",
          "reconnect_timer", "reconnect_due"})

\* A connected client has its heartbeat running: closing a connection ends the
\* heartbeat only together with the connection, stale handlers included.
HeartbeatAlive ==
  connected /\ ~stopping => Some({"heartbeat_timer", "heartbeat_due"})

\* connected_ may be stale (a second attempt closes the socket under a working
\* connection without clearing it); then a read handler is queued that will
\* find out.
StaleNoticed ==
  connected /\ socket # "open" => Some({"read_ok", "read_failed"})

\* A client that lost its connection tries again.
RetriesForever ==
  ~connected /\ ~stopping ~> ops["resolve"] > 0 \/ connected \/ stopping

\* Frames queued on a connected client are on their way, the login sent right
\* after connecting included (DBMiddlewareClient.cpp:91).
LoginOnItsWay == connected /\ write_queue # <<>> => Writes > 0
================================================================================
