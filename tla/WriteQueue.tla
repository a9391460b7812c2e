------------------------------- MODULE WriteQueue -------------------------------
(***************************************************************************)
(* The outgoing messages of one pooled Session: post_write, enqueue_write  *)
(* and do_write_queue, over the connections that use the object in turn.   *)
(*                                                                         *)
(* post_write dispatches a function to the strand of the connection: it    *)
(* runs at once in a handler of that strand and is queued otherwise.       *)
(* reset() gives the object a new strand, so functions left on an old      *)
(* strand run among those of the new one.  A write belongs to the          *)
(* connection and the generation it was started in.                        *)
(*                                                                         *)
(* close_session() is two steps: up to the cleanup() with which the pool   *)
(* takes the session back, and the cleanup() that follows, which may hit   *)
(* the next connection.  SessionLifecycle has its other interleavings.     *)
(***************************************************************************)
EXTENDS Integers, Sequences, FiniteSets

CONSTANTS
  max_write_queue_size,
  write_queue_overflow_limit,
  MaxMsgs,    \* bounds of the model: messages posted,
  MaxConns    \* and connections that use the object

\* With a limit of one message OneWriter fails: an overflow whose close_session()
\* is refused during acquire() empties the queue under the write in flight.
ASSUME WriteQueueAssumption ==
  /\ max_write_queue_size \in Nat \ {0, 1}
  /\ write_queue_overflow_limit \in Nat \ {0}
  /\ MaxMsgs \in Nat /\ MaxConns \in Nat \ {0}

Msgs  == 1 .. MaxMsgs
Conns == 1 .. MaxConns

VARIABLES
  closed,          \* closed and not yet in use again
  revived,         \* though closed, state_ is Ready
  write_queue,
  overflow_count,  \* write_queue_overflow_count_
  generation,
  conn,            \* the connection that uses the object
  acquiring,       \* SessionPool::acquire is past reset()
  trailing,        \* close_session() calls before their last cleanup()
  posted,          \* per connection, functions of post_write on its strand
  writes,          \* async_writes whose handler has not run
  \* history
  next_msg,
  origin,          \* the connection a message was posted for
  inline,          \* messages posted in a handler of the strand
  wire,            \* per connection, messages the client received
  accepted,        \* enqueue_write calls of this connection
  overflows,       \* of which found the queue full
  tampered         \* a step of an earlier connection hit this one

histVars == <<next_msg, origin, inline, wire, accepted, overflows>>
vars == <<closed, revived, write_queue, overflow_count, generation, conn, acquiring, trailing,
          posted, writes, histVars, tampered>>

Current == {w \in writes : w.gen = generation}

-----------------------------------------------------------------------------
Init ==
  /\ closed = FALSE /\ revived = FALSE
  /\ write_queue = <<>>
  /\ overflow_count = 0
  /\ generation = 0
  /\ conn = 1
  /\ acquiring = FALSE /\ trailing = 0
  /\ posted = [c \in Conns |-> <<>>]
  /\ writes = {}
  /\ next_msg = 1
  /\ origin = [m \in Msgs |-> 0] /\ inline = {}
  /\ wire = [c \in Conns |-> <<>>]
  /\ accepted = 0 /\ overflows = 0
  /\ tampered = FALSE

\* cleanup() empties the queue and makes earlier handlers stale.
cleanup ==
  /\ write_queue' = <<>>
  /\ generation' = generation + 1

\* close_session up to the return to the pool: the writes of the socket are
\* aborted.  While another close is under way try_close() may fail; acquire's
\* cleanup() ends that.
close_session(q, ws) ==
  \/ /\ closed' = TRUE /\ revived' = FALSE
     /\ cleanup
     /\ writes' = {IF w.status = "live" THEN [w EXCEPT !.status = "failed"] ELSE w : w \in ws}
     /\ trailing' = trailing + 1
  \/ /\ trailing > 0 /\ (closed \/ acquiring)
     /\ write_queue' = q /\ writes' = ws
     /\ UNCHANGED <<closed, revived, generation, trailing>>

\* async_write of the front of the queue; on a closed socket it fails at once.
Write(q) == [conn |-> conn, gen |-> generation, msg |-> Head(q),
             status |-> IF closed THEN "failed" ELSE "live"]

\* state_ is Closed.
Closed == closed /\ ~revived

\* Mutant: the last message waits for the next one.
LeaveLast(q, ws) ==
  writes' = IF Closed \/ Len(q) <= 1 THEN ws ELSE ws \cup {Write(q)}

\* do_write_queue, for the queue q and the other writes ws.
do_write_queue(q, ws) ==
  writes' = IF Closed \/ q = <<>> THEN ws ELSE ws \cup {Write(q)}

-----------------------------------------------------------------------------
(* Posting.                                                                *)

\* post_write, by any thread that holds the session and is not on its strand.
\* Before acquire() returns nobody knows of the new connection: the message is
\* meant for the last one.
Post ==
  /\ next_msg <= MaxMsgs
  /\ next_msg' = next_msg + 1
  /\ origin' = [origin EXCEPT ![next_msg] = IF acquiring THEN conn - 1 ELSE conn]
  /\ posted' = [posted EXCEPT ![conn] = Append(@, next_msg)]
  /\ tampered' = (tampered \/ acquiring)
  /\ UNCHANGED <<closed, revived, write_queue, overflow_count, generation, conn, acquiring,
                 trailing, writes, inline, wire, accepted, overflows>>

Full == Len(write_queue) >= max_write_queue_size

\* Mutant: every message starts a write.
AlwaysIdle == TRUE

\* The function's test for a queue that nobody writes from.
Idle == write_queue = <<>>

\* Mutant: a full queue does not take the new message.
DropNewest(m) ==
  /\ Full /\ overflow_count + 1 < write_queue_overflow_limit
  /\ overflow_count' = overflow_count + 1
  /\ write_queue' = Tail(write_queue)

\* enqueue_write on a full queue: the front is dropped, even while it is being
\* written.
DropOldest(m) ==
  /\ Full /\ overflow_count + 1 < write_queue_overflow_limit
  /\ overflow_count' = overflow_count + 1
  /\ write_queue' = Append(Tail(write_queue), m)

\* Mutant: the queue is never full.
PushAlways(m) ==
  /\ overflow_count' = 0
  /\ write_queue' = Append(write_queue, m)

\* Mutant: the new message goes to the front.
PushFront(m) ==
  /\ ~Full
  /\ overflow_count' = 0
  /\ write_queue' = <<m>> \o write_queue

\* enqueue_write otherwise.
Push(m) ==
  /\ ~Full
  /\ overflow_count' = 0
  /\ write_queue' = Append(write_queue, m)

\* The function of post_write, for the message m.
Enqueue(m) ==
  /\ accepted' = accepted + 1
  /\ overflows' = overflows + (IF Full THEN 1 ELSE 0)
  /\ \/ /\ Push(m) \/ DropOldest(m)
        /\ IF Idle THEN do_write_queue(write_queue', writes) ELSE UNCHANGED writes
        /\ UNCHANGED <<closed, revived, generation, trailing>>
     \/ /\ Full /\ overflow_count + 1 >= write_queue_overflow_limit
        /\ overflow_count' = overflow_count + 1
        /\ close_session(Tail(write_queue), writes)

\* A strand runs a function that was queued.
RunPost(c) ==
  /\ posted[c] # <<>>
  /\ posted' = [posted EXCEPT ![c] = Tail(@)]
  /\ Enqueue(Head(posted[c]))
  /\ tampered' = (tampered \/ (c # conn /\ ~closed))
  /\ UNCHANGED <<conn, acquiring, next_msg, origin, inline, wire>>

\* post_write in a handler of the session's own strand (the dispatch of a
\* message, the login timer): the function runs before those that are queued.
\* The strand of a new connection has no such handler before acquire() returns.
PostInline ==
  /\ ~acquiring /\ next_msg <= MaxMsgs
  /\ next_msg' = next_msg + 1
  /\ origin' = [origin EXCEPT ![next_msg] = conn]
  /\ inline' = inline \cup {next_msg}
  /\ Enqueue(next_msg)
  /\ UNCHANGED <<posted, conn, acquiring, wire, tampered>>

-----------------------------------------------------------------------------
(* Writing.                                                                *)

\* The socket takes the message, or fails.
Transfer ==
  /\ \E w \in writes :
       /\ w.status = "live"
       /\ \/ /\ writes' = (writes \ {w}) \cup {[w EXCEPT !.status = "ok"]}
             /\ wire' = [wire EXCEPT ![w.conn] = Append(@, w.msg)]
          \/ /\ writes' = (writes \ {w}) \cup {[w EXCEPT !.status = "failed"]}
             /\ UNCHANGED wire
  /\ UNCHANGED <<closed, revived, write_queue, overflow_count, generation, conn, acquiring,
                 trailing, posted, next_msg, origin, inline, accepted, overflows, tampered>>

\* The generation check at the head of the handler.
Stale(w) == w.gen # generation

\* The handler of async_write.
WriteHandler ==
  /\ \E w \in writes :
       /\ w.status # "live"
       /\ LET rest == writes \ {w} IN
          \/ /\ Stale(w)
             /\ writes' = rest
             /\ UNCHANGED <<closed, revived, write_queue, generation, trailing>>
          \/ /\ ~Stale(w) /\ w.status = "failed"
             /\ close_session(write_queue, rest)
          \/ /\ ~Stale(w) /\ w.status = "ok"
             /\ write_queue' = Tail(write_queue)
             /\ do_write_queue(write_queue', rest)
             /\ UNCHANGED <<closed, revived, generation, trailing>>
  /\ UNCHANGED <<overflow_count, conn, acquiring, posted, histVars, tampered>>

\* Anything else that closes the session: end of file, a sweep, a second login.
\* On a session that is closed a further close changes nothing but the generation
\* and the end of a revival; ReadLoop has it.
Close ==
  /\ ~closed
  /\ close_session(write_queue, writes)
  /\ UNCHANGED <<overflow_count, conn, acquiring, posted, histVars, tampered>>

\* The late completion of a login sets state_ of a closed session to Ready.
on_nickname_registered ==
  /\ closed /\ ~revived
  /\ revived' = TRUE
  /\ UNCHANGED <<closed, write_queue, overflow_count, generation, conn, acquiring, trailing, posted,
                 writes, histVars, tampered>>

\* The end of close_session(); the session may have its next connection.
TrailingCleanup ==
  /\ trailing > 0
  /\ trailing' = trailing - 1
  /\ cleanup
  /\ tampered' = (tampered \/ ~closed)
  /\ UNCHANGED <<closed, revived, overflow_count, conn, acquiring, posted, writes, histVars>>

\* The pool hands the object to the next connection: reset() ...
reset ==
  /\ closed /\ ~acquiring /\ conn < MaxConns
  /\ closed' = FALSE /\ revived' = FALSE
  /\ conn' = conn + 1
  /\ acquiring' = TRUE
  /\ cleanup
  /\ accepted' = 0 /\ overflows' = 0 /\ tampered' = FALSE
  /\ UNCHANGED <<overflow_count, trailing, posted, writes, next_msg, origin, inline, wire>>

\* ... and acquire's cleanup().
AcquireCleanup ==
  /\ acquiring
  /\ acquiring' = FALSE
  /\ cleanup
  /\ UNCHANGED <<closed, revived, overflow_count, conn, trailing, posted, writes, histVars,
                 tampered>>

-----------------------------------------------------------------------------
Next ==
  \/ Post \/ PostInline \/ Transfer \/ WriteHandler
  \/ Close \/ on_nickname_registered \/ TrailingCleanup \/ reset \/ AcquireCleanup
  \/ \E c \in Conns : RunPost(c)

Spec == Init /\ [][Next]_vars

-----------------------------------------------------------------------------
(* Properties.                                                             *)

\* Types; the queue keeps to its limit, and so does the overflow counter.
TypeOK ==
  /\ closed \in BOOLEAN /\ revived \in BOOLEAN
  /\ write_queue \in Seq(Msgs) /\ Len(write_queue) <= max_write_queue_size
  /\ overflow_count \in 0 .. write_queue_overflow_limit
  /\ generation \in Nat
  /\ conn \in Conns /\ acquiring \in BOOLEAN /\ trailing \in Nat
  /\ posted \in [Conns -> Seq(Msgs)]
  /\ \A w \in writes : /\ w.conn \in Conns /\ w.gen \in 0 .. generation /\ w.msg \in Msgs
                       /\ w.status \in {"live", "ok", "failed"}
  /\ next_msg \in 1 .. MaxMsgs + 1
  /\ origin \in [Msgs -> Conns \cup {0}] /\ inline \subseteq Msgs
  /\ wire \in [Conns -> Seq(Msgs)]
  /\ accepted \in Nat /\ overflows \in Nat /\ tampered \in BOOLEAN

\* At any time at most one write has a handler that still counts, and while one
\* has the queue is not empty: the handler never pops an empty queue, whatever
\* enqueue_write dropped and whoever cleaned up meanwhile.  Until a step of an
\* earlier connection hits the current one, it is also the only write on the
\* socket - two would mix their frames.
OneWriter ==
  /\ Cardinality(Current) <= 1
  /\ Current # {} => write_queue # <<>>
  /\ tampered \/ \A w \in writes : w.status = "live" => w \in Current /\ w.conn = conn

\* An open session with queued messages is writing: neither dropping the
\* message in flight nor a cleanup() out of turn stops the chain of writes.
KeepsWriting == ~closed /\ ~acquiring /\ write_queue # <<>> => Current # {}

\* The only way past a message that was posted earlier: that one was queued on
\* the strand and this one posted by a handler of the strand.
Precedes(m, n) == m < n \/ (n < m /\ m \in inline /\ n \notin inline)

\* A client receives its own messages, none of them twice, and in the order they
\* were posted, except that dispatch() lets a handler of the strand overtake what
\* other threads posted and the strand has not run (Session.cpp:102): the messages
\* of other threads keep their order, so do those of the strand's handlers, and
\* none of the latter is overtaken.  So on every connection that earlier ones left
\* alone.
InOrder ==
  ~tampered =>
    \A i, j \in DOMAIN wire[conn] :
      /\ i < j => Precedes(wire[conn][i], wire[conn][j])
      /\ origin[wire[conn][i]] = conn

\* Each overflow costs the client exactly one message and nothing else does:
\* when an open connection has nothing left to write, what it did not receive
\* is what overflowed, although the message dropped from the queue and the one
\* that is not sent differ.
LossIsOverflow ==
  ~tampered /\ ~closed /\ write_queue = <<>> => accepted = Len(wire[conn]) + overflows

\* A client receives only messages posted to its own connection: generation_
\* keeps functions of the previous connection from touching the current one
\* (README.md:915).
OwnMessagesOnly ==
  \A c \in Conns : \A i \in DOMAIN wire[c] : origin[wire[c][i]] = c
================================================================================
