-------------------------------- MODULE ReadLoop --------------------------------
(***************************************************************************)
(* The incoming side of one pooled Session: do_read, the task queue it is  *)
(* started through (post_task, run_next_task), the completion handler and  *)
(* its loop over MessageBufferManager, over the connections that use the   *)
(* object in turn.                                                         *)
(*                                                                         *)
(* Each connection has a strand: its handlers run one at a time, but those *)
(* of an earlier connection run among those of the current one, because    *)
(* reset() gives the object a new strand and nothing in the read path      *)
(* looks at generation_.  Other threads close and recycle the session      *)
(* between any two steps of a handler.                                     *)
(*                                                                         *)
(* close_session() is two steps: up to the cleanup() with which the pool   *)
(* takes the session back, and the cleanup() that follows, which may hit   *)
(* the next connection.  SessionLifecycle has its other interleavings.     *)
(***************************************************************************)
EXTENDS MessageBuffer, FiniteSets

CONSTANTS
  max_task_queue,
  MaxConns,    \* bounds of the model: connections that use the object,
  MaxBytes,    \* digits the clients send in all,
  MaxCloses    \* and closes under way when another thread closes a revived session

ASSUME ReadLoopAssumption ==
  /\ max_task_queue \in Nat \ {0} /\ MaxConns \in Nat \ {0}
  /\ MaxBytes \in Nat /\ MaxCloses \in Nat

Conns == 1 .. MaxConns

VARIABLES
  closed,         \* close_session() ran: state_ is Closed, the socket is closed
  revived,        \* on_nickname_registered made state_ Ready again after that
  conn,           \* the connection that uses the object, and its strand
  accepting,      \* what Server's accept handler still does: "cleanup", "start", "done"
  read_pending, task_running,
  task_queue,     \* how many functions are queued: do_read is all that queues any
  buffer,         \* msg_buf_mgr_
  posted,         \* per strand, functions of post_task on it
  reads,          \* async_read_somes whose handler has not started
  strand,         \* per strand, where its handler is and what follows a close
  trailing,       \* close_session() calls of other threads before their last cleanup()
  \* history
  bytes,          \* digits sent by all clients
  stream,         \* digits the client of the open connection sent,
  out,            \* and what was dispatched of them
  dropped,        \* the buffer was cleared
  tampered        \* a step of an earlier connection hit this one

loopVars == <<read_pending, task_running, task_queue>>
histVars == <<bytes, stream, out, dropped>>
vars == <<closed, revived, conn, accepting, loopVars, buffer, posted, reads, strand, trailing,
          histVars, tampered>>

Resting   == [at |-> "idle", then |-> "idle"]
At(pc)    == [at |-> pc, then |-> "idle"]
Closing(pc) == [at |-> "close", then |-> pc]    \* close_session(), then pc

Init ==
  /\ closed = FALSE /\ revived = FALSE /\ conn = 1 /\ accepting = "start"
  /\ read_pending = FALSE /\ task_running = FALSE /\ task_queue = 0
  /\ buffer = <<>>
  /\ posted = [c \in Conns |-> 0]
  /\ reads = {}
  /\ strand = [c \in Conns |-> Resting]
  /\ trailing = 0
  /\ bytes = 0 /\ stream = <<>> /\ out = <<>> /\ dropped = FALSE /\ tampered = FALSE

-----------------------------------------------------------------------------
(* Closing and recycling.                                                  *)

\* data_ is one array: what writes to it changes what handlers still to run
\* will append.
Overwrite(rs, chunk) ==
  {[r EXCEPT !.chunk = [i \in DOMAIN r.chunk |->
                          IF i <= Len(chunk) THEN chunk[i] ELSE r.chunk[i]]] : r \in rs}

Zeros == [i \in 1 .. ReadSize |-> 0]

\* cleanup(), for the reads rs.
cleanup(rs) ==
  /\ task_queue' = 0 /\ task_running' = FALSE /\ read_pending' = FALSE
  /\ reads' = Overwrite(rs, Zeros)

\* Socket closed: what was to come ends with operation_aborted.
Aborted(rs) == {IF r.status = "live" THEN [r EXCEPT !.status = "aborted"] ELSE r : r \in rs}

\* close_session() up to the return to the pool.
close_session ==
  /\ closed' = TRUE /\ revived' = FALSE
  /\ cleanup(Aborted(reads))
  /\ stream' = <<>> /\ out' = <<>>
  /\ UNCHANGED bytes

\* A close under way may make try_close() of another fail.
Refused ==
  /\ trailing > 0 \/ \E c \in Conns : strand[c].at = "cleanup"
  /\ closed \/ accepting = "cleanup"

\* A timer, a sweep, a failed write or a second login closes the session.
Close ==
  /\ ~closed \/ (revived /\ trailing < MaxCloses)
  /\ close_session
  /\ trailing' = trailing + 1
  /\ UNCHANGED <<conn, accepting, buffer, posted, strand, dropped, tampered>>

\* A late reply completes the login of a session that is closed: state_ is Ready
\* again, the socket stays closed.
on_nickname_registered ==
  /\ closed /\ ~revived
  /\ revived' = TRUE
  /\ UNCHANGED <<closed, conn, accepting, loopVars, buffer, posted, reads, strand, trailing,
                 histVars, tampered>>

\* The end of close_session(); the session may have its next connection.
TrailingCleanup ==
  /\ trailing > 0
  /\ trailing' = trailing - 1
  /\ cleanup(reads)
  /\ tampered' = (tampered \/ ~closed)
  /\ UNCHANGED <<closed, revived, conn, accepting, buffer, posted, strand, histVars>>

\* The pool hands the object to the next connection: reset() ...
reset ==
  /\ closed /\ accepting = "done" /\ conn < MaxConns
  /\ closed' = FALSE /\ revived' = FALSE
  /\ conn' = conn + 1
  /\ accepting' = "cleanup"
  /\ cleanup(reads)
  /\ buffer' = <<>>
  /\ stream' = <<>> /\ out' = <<>> /\ dropped' = FALSE /\ tampered' = FALSE
  /\ UNCHANGED <<posted, strand, trailing, bytes>>

\* ... and acquire's cleanup().
AcquireCleanup ==
  /\ accepting = "cleanup"
  /\ accepting' = "start"
  /\ cleanup(reads)
  /\ UNCHANGED <<closed, revived, conn, buffer, posted, strand, trailing, histVars, tampered>>

-----------------------------------------------------------------------------
(* Starting a read.                                                        *)

\* async_read_some on the socket of the moment, its handler bound to the strand
\* of the moment; a closed socket fails at once.
Read(rs) ==
  [id     |-> CHOOSE i \in 1 .. Cardinality(rs) + 1 : \A r \in rs : r.id # i,
   conn   |-> conn,
   status |-> IF closed THEN "failed" ELSE "live",
   chunk  |-> <<>>]

\* Mutant: the last function in the queue is left there.
NextLater(queue) ==
  \/ /\ queue <= 1
     /\ task_queue' = queue /\ task_running' = FALSE
     /\ UNCHANGED reads
  \/ /\ queue > 1
     /\ task_queue' = queue - 1
     /\ reads' = reads \cup {Read(reads)}
     /\ UNCHANGED task_running

\* run_next_task, with queue functions in task_queue_.
run_next_task(queue) ==
  \/ /\ queue = 0
     /\ task_queue' = 0 /\ task_running' = FALSE
     /\ UNCHANGED reads
  \/ /\ queue > 0
     /\ task_queue' = queue - 1
     /\ reads' = reads \cup {Read(reads)}
     /\ UNCHANGED task_running

\* The function of post_task, on strand c; pc follows.
Enqueue(c, pc) ==
  \/ /\ task_queue >= max_task_queue
     /\ strand' = [strand EXCEPT ![c] = Closing(pc)]
     /\ UNCHANGED <<reads, task_queue, task_running>>
  \/ /\ task_queue < max_task_queue
     /\ strand' = [strand EXCEPT ![c] = At(pc)]
     /\ IF task_running
        THEN task_queue' = task_queue + 1 /\ UNCHANGED <<reads, task_running>>
        ELSE /\ task_queue' = task_queue /\ task_running' = TRUE
             /\ reads' = reads \cup {Read(reads)}

\* do_read: nothing while state_ is Closed or a read is pending.
MayRead == (~closed \/ revived) /\ ~read_pending

\* Session::start(), by the acceptor; the login timer is a Close.
Start ==
  /\ accepting = "start"
  /\ accepting' = "done"
  /\ IF MayRead
     THEN read_pending' = TRUE /\ posted' = [posted EXCEPT ![conn] = @ + 1]
     ELSE UNCHANGED <<read_pending, posted>>
  /\ UNCHANGED <<closed, revived, conn, task_running, task_queue, buffer, reads, strand, trailing,
                 histVars, tampered>>

RunPosted(c) ==
  /\ posted[c] > 0 /\ strand[c].at = "idle"
  /\ posted' = [posted EXCEPT ![c] = @ - 1]
  /\ Enqueue(c, "idle")
  /\ tampered' = (tampered \/ (c # conn /\ ~closed))
  /\ UNCHANGED <<closed, revived, conn, accepting, read_pending, buffer, trailing, histVars>>

-----------------------------------------------------------------------------
(* The completion of a read.                                               *)

\* The client sends something, or the connection ends or fails.
Complete ==
  /\ \E r \in reads :
       /\ r.status = "live"
       /\ \/ \E chunk \in Chunks :
               /\ bytes + Len(chunk) <= MaxBytes
               /\ bytes' = bytes + Len(chunk)
               /\ stream' = IF tampered THEN <<>> ELSE stream \o chunk
               /\ reads' = Overwrite(reads \ {r}, chunk)
                             \cup {[r EXCEPT !.status = "ready", !.chunk = chunk]}
          \/ /\ reads' = (reads \ {r}) \cup {[r EXCEPT !.status = "failed"]}
             /\ UNCHANGED <<bytes, stream>>
  /\ UNCHANGED <<closed, revived, conn, accepting, loopVars, buffer, posted, strand, trailing, out,
                 dropped, tampered>>

\* Mutant: the handler forgets release_read().
KeepPending(r) == read_pending' = read_pending

\* release_read() at the head of the handler, whoever the read belongs to.
release_read(r) == read_pending' = FALSE

\* The handler starts.
Handle ==
  /\ \E r \in reads :
       /\ r.status # "live" /\ strand[r.conn].at = "idle"
       /\ reads' = reads \ {r}
       /\ release_read(r)
       /\ \/ /\ r.status = "ready"
             /\ buffer' = buffer \o r.chunk
             /\ strand' = [strand EXCEPT ![r.conn] = At("extract")]
          \/ /\ r.status = "failed"
             /\ strand' = [strand EXCEPT ![r.conn] = Closing("next")]
             /\ UNCHANGED buffer
          \/ /\ r.status = "aborted"
             /\ strand' = [strand EXCEPT ![r.conn] = At("next")]
             /\ UNCHANGED buffer
       /\ tampered' = (tampered \/ (r.conn # conn /\ ~closed))
  /\ UNCHANGED <<closed, revived, conn, accepting, task_running, task_queue, posted, trailing,
                 histVars>>

\* A message was found: it is dispatched.  The dispatcher may close the session
\* (unknown type, a handler that throws) and return, or throw itself, which ends
\* the handler without run_next_task().
Dispatch(c) ==
  LET r == extract_message(buffer) IN
  /\ strand[c].at = "extract" /\ r.found
  /\ buffer' = r.left
  /\ \E pc \in {At("extract"), Closing("extract"), Closing("idle")} :
       strand' = [strand EXCEPT ![c] = pc]
  /\ tampered' = (tampered \/ (c # conn /\ ~closed))
  /\ out' = IF closed \/ tampered' THEN <<>> ELSE Append(out, r.msg)
  /\ UNCHANGED <<closed, revived, conn, accepting, loopVars, posted, reads, trailing, bytes, stream,
                 dropped>>

\* Mutant: the handler reads on after the buffer was cleared.
CarryOn(r) == FALSE

\* The handler closes the session when the buffer was cleared.
MustClose(r) == r.invalid

\* No message is left: close, also without run_next_task(), or do_read() and
\* then run_next_task().  After a recycling do_read() serves the new connection,
\* through its strand.
ReadOn(c) ==
  LET r == extract_message(buffer) IN
  /\ strand[c].at = "extract" /\ ~r.found
  /\ buffer' = r.left
  /\ dropped' = (dropped \/ r.invalid)
  /\ \/ /\ MustClose(r)
        /\ strand' = [strand EXCEPT ![c] = Closing("idle")]
        /\ UNCHANGED <<loopVars, reads, posted>>
     \/ /\ ~MustClose(r) /\ ~MayRead
        /\ strand' = [strand EXCEPT ![c] = At("next")]
        /\ UNCHANGED <<loopVars, reads, posted>>
     \/ /\ ~MustClose(r) /\ MayRead /\ c = conn
        /\ read_pending' = TRUE
        /\ Enqueue(c, "next")
        /\ UNCHANGED posted
     \/ /\ ~MustClose(r) /\ MayRead /\ c # conn
        /\ read_pending' = TRUE
        /\ posted' = [posted EXCEPT ![conn] = @ + 1]
        /\ strand' = [strand EXCEPT ![c] = At("next")]
        /\ UNCHANGED <<reads, task_queue, task_running>>
  /\ tampered' = (tampered \/ (c # conn /\ ~closed))
  /\ UNCHANGED <<closed, revived, conn, accepting, trailing, bytes, stream, out>>

\* The handler closes the session ...
HandlerClose(c) ==
  /\ strand[c].at = "close"
  /\ \/ /\ close_session
        /\ strand' = [strand EXCEPT ![c].at = "cleanup"]
     \/ /\ Refused
        /\ strand' = [strand EXCEPT ![c] = At(strand[c].then)]
        /\ UNCHANGED <<closed, revived, loopVars, reads, bytes, stream, out>>
  /\ UNCHANGED <<conn, accepting, buffer, posted, trailing, dropped, tampered>>

\* ... and goes on where it was.
HandlerCleanup(c) ==
  /\ strand[c].at = "cleanup"
  /\ cleanup(reads)
  /\ strand' = [strand EXCEPT ![c] = At(strand[c].then)]
  /\ tampered' = (tampered \/ ~closed)
  /\ UNCHANGED <<closed, revived, conn, accepting, buffer, posted, trailing, histVars>>

\* run_next_task() at the end of the handler.
RunNext(c) ==
  /\ strand[c].at = "next"
  /\ run_next_task(task_queue)
  /\ strand' = [strand EXCEPT ![c] = Resting]
  /\ tampered' = (tampered \/ (c # conn /\ ~closed))
  /\ UNCHANGED <<closed, revived, conn, accepting, read_pending, buffer, posted, trailing, histVars>>

-----------------------------------------------------------------------------
StrandStep(c) ==
  RunPosted(c) \/ Dispatch(c) \/ ReadOn(c) \/ HandlerClose(c) \/ HandlerCleanup(c) \/ RunNext(c)

Next ==
  \/ Close \/ on_nickname_registered \/ TrailingCleanup \/ reset \/ AcquireCleanup \/ Start
  \/ Complete \/ Handle
  \/ \E c \in Conns : StrandStep(c)

Spec == Init /\ [][Next]_vars

\* The strands run what is queued on them and the accept handler goes on;
\* nothing is assumed of clients, timers or other threads.
FairSpec ==
  /\ Spec
  /\ WF_vars(Handle) /\ \A c \in Conns : WF_vars(StrandStep(c))
  /\ WF_vars(AcquireCleanup) /\ WF_vars(Start)

-----------------------------------------------------------------------------
(* Properties.                                                             *)

\* Types.
TypeOK ==
  /\ closed \in BOOLEAN /\ revived \in BOOLEAN /\ conn \in Conns
  /\ accepting \in {"cleanup", "start", "done"}
  /\ read_pending \in BOOLEAN /\ task_running \in BOOLEAN /\ task_queue \in 0 .. max_task_queue
  /\ buffer \in Seq(Digits)
  /\ posted \in [Conns -> Nat]
  /\ \A r \in reads : /\ r.id \in Nat /\ r.conn \in 1 .. conn
                      /\ r.status \in {"live", "ready", "failed", "aborted"}
                      /\ r.chunk \in Chunks \cup {<<>>}
  /\ strand \in [Conns -> [at : {"idle", "extract", "close", "cleanup", "next"},
                           then : {"idle", "extract", "next"}]]
  /\ trailing \in Nat /\ bytes \in 0 .. MaxBytes
  /\ stream \in Seq(Digits)
  /\ \A i \in DOMAIN out : out[i] \in Seq(Digits) /\ Len(out[i]) \in 1 .. MAX_PACKET_SIZE
  /\ dropped \in BOOLEAN /\ tampered \in BOOLEAN

\* A read of the current connection that has not been handled.
Outstanding == {r \in reads : r.conn = conn}

\* The loop of an open connection is neither lost nor doubled: a function on
\* its way to the strand, one outstanding read, or one running handler, and
\* never two of them, on every connection that earlier ones left alone.
\* read_pending_ and task_running_ alone do not say so: the handler clears one
\* while the other is set, and both are cleared by a cleanup().
OneLoop ==
  ~closed /\ ~tampered /\ accepting = "done" =>
    posted[conn] + Cardinality(Outstanding) + (IF strand[conn].at = "idle" THEN 0 ELSE 1) = 1

\* How the stream is cut into reads does not matter: on an open connection that
\* earlier ones left alone the messages dispatched are the first messages of
\* the stream, noise skipped the same way, and all of them once the handler
\* has dealt with what was read.
ChunkIndependent ==
  ~closed /\ ~tampered =>
    LET all == Messages(stream) IN
    /\ Len(out) <= Len(all) /\ out = SubSeq(all, 1, Len(out))
    /\ strand[conn].at \in {"idle", "next"} /\ (\A r \in Outstanding : r.status # "ready")
         => out = all

\* Between reads the buffer of a connection left alone is bounded, whatever the
\* client sends: by a message that is not complete or by ABSOLUTE_MAX_BUFFER.
Bounded ==
  ~closed /\ ~tampered /\ strand[conn].at \in {"idle", "next"} =>
    Len(buffer) <= ABSOLUTE_MAX_BUFFER \/ Len(buffer) < Prefix + MAX_PACKET_SIZE

\* Bytes are thrown away only together with the session: nothing that follows
\* a gap in the stream is ever dispatched on a connection left alone.
DropCloses == dropped /\ ~tampered => closed \/ \E c \in Conns : strand[c].at = "close"

\* An open connection always comes back to reading, unless a step of an earlier
\* one hits it: no message, noise or parse error leaves it deaf.
KeepsListening ==
  \A c \in Conns :
    conn = c ~> \/ closed \/ tampered \/ conn # c
                \/ \E r \in reads : r.conn = c /\ r.status = "live"
================================================================================
