---------------------------- MODULE SessionLifecycle ----------------------------
(***************************************************************************)
(* The life of a pooled TCP session: SessionPool (acquire, release and the *)
(* list of free indices), the life_state_ word of Session, the buckets of  *)
(* SessionManager, the accept loop of Server and close_session(), run by   *)
(* the threads of one io_context.                                          *)
(*                                                                         *)
(* A session object is identified by its index in pool_ and is never       *)
(* destroyed: it is recycled for the next connection.  Code under one      *)
(* mutex is one action unless it touches words other threads touch without *)
(* that mutex; then the mutex (pool_mutex) is a variable and the section   *)
(* has several actions.                                                    *)
(***************************************************************************)
EXTENDS Integers, Sequences, FiniteSets

CONSTANTS
  Workers,     \* io_context threads that run handlers and sweeps
  Acceptor,    \* the thread that runs the accept handler (one at a time)
  PoolSize,    \* session_pool_size
  MaxSize,     \* max_session_pool_size
  MaxUnauth,   \* argument of cleanup_unauth_sessions
  MaxConns     \* bound of the model: connections accepted

ASSUME ConstantsAssumption ==
  /\ Acceptor \notin Workers /\ -1 \notin Workers \cup {Acceptor}
  /\ PoolSize \in Nat /\ MaxSize \in Nat \ {0} /\ PoolSize <= MaxSize
  /\ MaxUnauth \in Nat /\ MaxConns \in Nat

Threads == Workers \cup {Acceptor}
Idx     == 0 .. MaxSize - 1          \* indices of pool_
Ids     == 0 .. MaxConns - 1         \* values of Server::session_counter_
None    == -1                        \* nullptr, end(), "no id yet"

Free     == {"accept", "idle"}
Holding  == {"activate", "clean"}                \* acquire(), mutex_ held
Removing == {"release", "returning"}             \* DataHandler::remove_session
PCs      == Free \cup Holding \cup Removing \cup
            {"add", "sweep", "next", "closing", "finalize", "remove", "cleanup", "login"}
LifeStates == {"Idle", "Active", "Closing", "Closed", "Released"}
States     == {"Handshaking", "Ready", "Closed"}

VARIABLES
  \* SessionPool
  pool_size,     \* pool_.size()
  reusable,      \* reusable_indices_
  available,     \* available_index_set_
  pool_mutex,    \* holder of SessionPool::mutex_, or None
  \* Session, one value per index
  life_state, state, session_id, registered,
  \* SessionManager and Server
  bucket,        \* session_buckets_, all shards: id -> index
  next_id,       \* session_counter_
  logins,        \* sessions with a user-info request at the DB middleware
  \* threads
  pc,
  cur,           \* the session a thread works on
  todo,          \* pointers a thread still has to close
  removed,       \* DataHandler::remove_session's local `session`
  \* history
  granted,       \* id -> the index acquire() gave it
  late           \* a login reply re-registered a session no longer managed

poolVars == <<pool_size, reusable, available, pool_mutex>>
sessVars == <<life_state, state, session_id, registered>>
mgrVars  == <<bucket, next_id, logins>>
thrVars  == <<pc, cur, todo, removed>>
vars     == <<poolVars, sessVars, mgrVars, thrVars, granted, late>>

Range(f) == {f[x] : x \in DOMAIN f}

Managed == Range(bucket) \ {None}

-----------------------------------------------------------------------------
Init ==
  /\ pool_size = PoolSize
  /\ reusable = [i \in 1 .. PoolSize |-> i - 1]
  /\ available = {}
  /\ pool_mutex = None
  /\ life_state = [s \in Idx |-> "Idle"]
  /\ state = [s \in Idx |-> "Handshaking"]
  /\ session_id = [s \in Idx |-> None]
  /\ registered = [s \in Idx |-> FALSE]
  /\ bucket = [id \in Ids |-> None]
  /\ next_id = 0
  /\ logins = {}
  /\ pc = [t \in Threads |-> IF t = Acceptor THEN "accept" ELSE "idle"]
  /\ cur = [t \in Threads |-> None]
  /\ todo = [t \in Threads |-> {}]
  /\ removed = [t \in Threads |-> None]
  /\ granted = [id \in Ids |-> None]
  /\ late = FALSE

-----------------------------------------------------------------------------
(* Session: the words of one session that other threads read.              *)

\* Mutant: cleanup() keeps the Released mark.
CleanupKeepsReleased(s) ==
  /\ life_state' = [life_state EXCEPT ![s] = IF @ = "Released" THEN @ ELSE "Idle"]
  /\ registered' = [registered EXCEPT ![s] = FALSE]

\* Session::cleanup(): whatever life_state_ was, it becomes Idle.
cleanup(s) ==
  /\ life_state' = [life_state EXCEPT ![s] = "Idle"]
  /\ registered' = [registered EXCEPT ![s] = FALSE]

\* Session::reset(): a new connection takes the object over.
reset(s, id) ==
  /\ session_id' = [session_id EXCEPT ![s] = id]
  /\ state' = [state EXCEPT ![s] = "Handshaking"]
  /\ registered' = [registered EXCEPT ![s] = FALSE]

-----------------------------------------------------------------------------
(* Accepting a connection: Server::start_accept and SessionPool::acquire.  *)

\* Mutant: the pool hands out the head of the free list without popping it.
GrantNoPop(idx) ==
  \/ /\ reusable = <<>> /\ pool_size < MaxSize
     /\ idx = pool_size
     /\ pool_size' = pool_size + 1
     /\ UNCHANGED <<reusable, available>>
  \/ /\ reusable # <<>>
     /\ idx = Head(reusable)
     /\ available' = available \ {idx}
     /\ UNCHANGED <<pool_size, reusable>>

\* The index acquire() picks: a new session while the free list is empty and
\* the pool may grow, else the head of the free list.
Grant(idx) ==
  \/ /\ reusable = <<>> /\ pool_size < MaxSize
     /\ idx = pool_size
     /\ pool_size' = pool_size + 1
     /\ UNCHANGED <<reusable, available>>
  \/ /\ reusable # <<>>
     /\ idx = Head(reusable)
     /\ reusable' = Tail(reusable)
     /\ available' = available \ {idx}
     /\ UNCHANGED pool_size

\* A connection gets an id and a session; reset() runs under mutex_.
Accept ==
  /\ pc[Acceptor] = "accept" /\ pool_mutex = None /\ next_id < MaxConns
  /\ next_id' = next_id + 1
  /\ \E idx \in Idx :
       /\ Grant(idx)
       /\ reset(idx, next_id)
       /\ granted' = [granted EXCEPT ![next_id] = idx]
       /\ cur' = [cur EXCEPT ![Acceptor] = idx]
  /\ pool_mutex' = Acceptor
  /\ pc' = [pc EXCEPT ![Acceptor] = "activate"]
  /\ UNCHANGED <<life_state, bucket, logins, todo, removed, late>>

\* The pool is exhausted: acquire() returns nullptr, the id is spent.
Reject ==
  /\ pc[Acceptor] = "accept" /\ pool_mutex = None /\ next_id < MaxConns
  /\ reusable = <<>> /\ pool_size >= MaxSize
  /\ next_id' = next_id + 1
  /\ UNCHANGED <<poolVars, sessVars, bucket, logins, thrVars, granted, late>>

\* acquire(): set_active(true), which only moves Idle to Active.
Activate ==
  /\ pc[Acceptor] = "activate"
  /\ life_state' = [life_state EXCEPT ![cur[Acceptor]] = IF @ = "Idle" THEN "Active" ELSE @]
  /\ pc' = [pc EXCEPT ![Acceptor] = "clean"]
  /\ UNCHANGED <<poolVars, state, session_id, registered, mgrVars, cur, todo, removed,
                 granted, late>>

\* acquire(): the trailing cleanup(), then mutex_ is released.
AcquireCleanup ==
  /\ pc[Acceptor] = "clean"
  /\ cleanup(cur[Acceptor])
  /\ pool_mutex' = None
  /\ pc' = [pc EXCEPT ![Acceptor] = "add"]
  /\ UNCHANGED <<pool_size, reusable, available, state, session_id, mgrVars, cur, todo, removed,
                 granted, late>>

\* Mutant: the entry is filed under the newest id.
AddUnderNewest(s) == bucket' = [bucket EXCEPT ![next_id - 1] = s]

\* SessionManager::add_session files the session under its current id.
add_session(s) == bucket' = [bucket EXCEPT ![session_id[s]] = s]

AddAccepted ==
  /\ pc[Acceptor] = "add"
  /\ add_session(cur[Acceptor])
  /\ cur' = [cur EXCEPT ![Acceptor] = None]
  /\ pc' = [pc EXCEPT ![Acceptor] = "sweep"]
  /\ UNCHANGED <<poolVars, sessVars, next_id, logins, todo, removed, granted, late>>

\* DataHandler::cleanup_unauth_sessions: the accept handler closes what exceeds
\* MaxUnauth; which ones are the oldest depends on the clients.  start()
\* follows, which arms the read loop and the login timer.
CleanupUnauth ==
  LET unauth == {id \in Ids : bucket[id] # None /\ state[bucket[id]] = "Handshaking"}
  IN
  /\ pc[Acceptor] = "sweep"
  /\ \/ /\ Cardinality(unauth) <= MaxUnauth
        /\ pc' = [pc EXCEPT ![Acceptor] = "accept"]
        /\ UNCHANGED todo
     \/ /\ Cardinality(unauth) > MaxUnauth
        /\ \E victims \in SUBSET unauth :
             /\ Cardinality(victims) = Cardinality(unauth) - MaxUnauth
             /\ todo' = [todo EXCEPT ![Acceptor] = {bucket[id] : id \in victims}]
        /\ pc' = [pc EXCEPT ![Acceptor] = "next"]
  /\ UNCHANGED <<poolVars, sessVars, mgrVars, cur, removed, granted, late>>

-----------------------------------------------------------------------------
(* Who closes sessions.  Each collects pointers and uses them later.       *)

Collect(t, S) ==
  /\ pc[t] = "idle" /\ S # {}
  /\ todo' = [todo EXCEPT ![t] = S]
  /\ pc' = [pc EXCEPT ![t] = "next"]
  /\ UNCHANGED <<poolVars, sessVars, mgrVars, cur, removed, granted, late>>

\* DataHandler::do_keepalive_check: registered sessions that fell silent.
KeepaliveCheck(t) ==
  \E S \in SUBSET {s \in Managed : registered[s]} : Collect(t, S)

\* SessionManager::cleanup_inactive_sessions: any session that fell silent.
CleanupInactive(t) == \E S \in SUBSET Managed : Collect(t, S)

\* A handler of the session itself (end of file, read or write error, login
\* timeout, logout) or a login elsewhere under its nickname.  Handlers of an
\* earlier connection may be left: the session may be back in the pool.
HandlerClose(t) == \E s \in Idx : session_id[s] # None /\ Collect(t, {s})

-----------------------------------------------------------------------------
(* Session::close_session.                                                 *)

\* Where a thread goes when a close_session() call returns.
Return(t) ==
  IF todo[t] # {} THEN "next" ELSE IF t = Acceptor THEN "accept" ELSE "idle"

\* Session::try_close: Active or Idle becomes Closing, anything else fails.
try_close(s) == life_state[s] \in {"Active", "Idle"}

CloseBegin(t) ==
  /\ pc[t] = "next"
  /\ \E s \in todo[t] :
       /\ todo' = [todo EXCEPT ![t] = @ \ {s}]
       /\ \/ /\ try_close(s)
             /\ life_state' = [life_state EXCEPT ![s] = "Closing"]
             /\ cur' = [cur EXCEPT ![t] = s]
             /\ pc' = [pc EXCEPT ![t] = "closing"]
          \/ /\ ~try_close(s)
             /\ pc' = [pc EXCEPT ![t] = Return(t)']
             /\ UNCHANGED <<life_state, cur>>
  /\ UNCHANGED <<poolVars, state, session_id, registered, mgrVars, removed, granted, late>>

\* set_state(Closed), timers cancelled, socket closed.
CloseSocket(t) ==
  /\ pc[t] = "closing"
  /\ state' = [state EXCEPT ![cur[t]] = "Closed"]
  /\ pc' = [pc EXCEPT ![t] = "finalize"]
  /\ UNCHANGED <<poolVars, life_state, session_id, registered, mgrVars, cur, todo, removed,
                 granted, late>>

FinalizeClose(t) ==
  /\ pc[t] = "finalize"
  /\ life_state' = [life_state EXCEPT ![cur[t]] = "Closed"]
  /\ pc' = [pc EXCEPT ![t] = "remove"]
  /\ UNCHANGED <<poolVars, state, session_id, registered, mgrVars, cur, todo, removed,
                 granted, late>>

\* Mutant: the entry is looked up and not erased.
TakeNoErase(t, id) ==
  /\ removed' = [removed EXCEPT ![t] = bucket[id]]
  /\ UNCHANGED bucket

\* SessionManager::remove_session: look the id up and erase the entry.
Take(t, id) ==
  /\ removed' = [removed EXCEPT ![t] = bucket[id]]
  /\ bucket' = [bucket EXCEPT ![id] = None]

\* Mutant: remove_session goes on when the id is not found.
FoundAlways(id) == TRUE

\* DataHandler::remove_session returns early when the id is not found.
Found(id) == bucket[id] # None

\* DataHandler::remove_session(session_id_): the id is read now, not when the
\* close began.
RemoveSession(t) ==
  LET id == session_id[cur[t]] IN
  /\ pc[t] = "remove"
  /\ Take(t, id)
  /\ pc' = [pc EXCEPT ![t] = IF Found(id) THEN "release" ELSE "cleanup"]
  /\ UNCHANGED <<poolVars, sessVars, next_id, logins, cur, todo, granted, late>>

\* Mutant: the duplicate check of release() is missing.
MayReturnAlways(idx) == TRUE

\* SessionPool::release refuses an index that is already in the set.
MayReturn(idx) == idx \notin available

\* SessionPool::release up to cleanup(); a duplicate is reported and ignored.
ReleaseCheck(t) ==
  LET idx == removed[t] IN
  /\ pc[t] = "release" /\ pool_mutex = None
  /\ \/ /\ MayReturn(idx)
        /\ cleanup(idx)
        /\ pool_mutex' = t
        /\ pc' = [pc EXCEPT ![t] = "returning"]
        /\ UNCHANGED removed
     \/ /\ ~MayReturn(idx)
        /\ removed' = [removed EXCEPT ![t] = None]
        /\ pc' = [pc EXCEPT ![t] = "cleanup"]
        /\ UNCHANGED <<life_state, registered, pool_mutex>>
  /\ UNCHANGED <<pool_size, reusable, available, state, session_id, mgrVars, cur, todo,
                 granted, late>>

\* Mutant: the index is marked available and not queued.
ReturnSetOnly(idx) ==
  /\ available' = available \cup {idx}
  /\ UNCHANGED reusable

\* The index goes to the tail of the queue and into the duplicate-check set.
ReturnIndex(idx) ==
  /\ reusable' = Append(reusable, idx)
  /\ available' = available \cup {idx}

\* SessionPool::release: mark_released(), push and insert.
ReleaseReturn(t) ==
  LET idx == removed[t] IN
  /\ pc[t] = "returning"
  /\ life_state' = [life_state EXCEPT ![idx] = "Released"]
  /\ ReturnIndex(idx)
  /\ pool_mutex' = None
  /\ removed' = [removed EXCEPT ![t] = None]
  /\ pc' = [pc EXCEPT ![t] = "cleanup"]
  /\ UNCHANGED <<pool_size, state, session_id, registered, mgrVars, cur, todo, granted, late>>

\* close_session()'s own cleanup(), after the session went back to the pool.
CloseCleanup(t) ==
  /\ pc[t] = "cleanup"
  /\ cleanup(cur[t])
  /\ cur' = [cur EXCEPT ![t] = None]
  /\ pc' = [pc EXCEPT ![t] = Return(t)]
  /\ UNCHANGED <<poolVars, state, session_id, mgrVars, todo, removed, granted, late>>

-----------------------------------------------------------------------------
(* LoginFlow: the reply finds the session through the pointer it kept.     *)

\* A login message on a managed session sends the user-info request.
RequestLogin ==
  /\ \E s \in Managed \ logins : logins' = logins \cup {s}
  /\ UNCHANGED <<poolVars, sessVars, bucket, next_id, thrVars, granted, late>>

\* LoginFlow::on_user_info_ok files the session again under its current id.
LoginAdd(t) ==
  /\ pc[t] = "idle"
  /\ \E s \in logins :
       /\ logins' = logins \ {s}
       /\ add_session(s)
       /\ late' = (late \/ bucket[session_id[s]] # s)
       /\ cur' = [cur EXCEPT ![t] = s]
  /\ pc' = [pc EXCEPT ![t] = "login"]
  /\ UNCHANGED <<poolVars, sessVars, next_id, todo, removed, granted>>

\* ... and marks it logged in (on_nickname_registered).
LoginRegister(t) ==
  /\ pc[t] = "login"
  /\ registered' = [registered EXCEPT ![cur[t]] = TRUE]
  /\ state' = [state EXCEPT ![cur[t]] = "Ready"]
  /\ cur' = [cur EXCEPT ![t] = None]
  /\ pc' = [pc EXCEPT ![t] = "idle"]
  /\ UNCHANGED <<poolVars, life_state, session_id, mgrVars, todo, removed, granted, late>>

-----------------------------------------------------------------------------
AcceptLoop == Accept \/ Reject \/ Activate \/ AcquireCleanup \/ AddAccepted \/ CleanupUnauth

CloseSession(t) ==
  \/ CloseBegin(t) \/ CloseSocket(t) \/ FinalizeClose(t) \/ RemoveSession(t)
  \/ ReleaseCheck(t) \/ ReleaseReturn(t) \/ CloseCleanup(t)

Worker(t) ==
  \/ KeepaliveCheck(t) \/ CleanupInactive(t) \/ HandlerClose(t)
  \/ LoginAdd(t) \/ LoginRegister(t)

Next ==
  \/ AcceptLoop
  \/ RequestLogin
  \/ \E t \in Threads : CloseSession(t)
  \/ \E t \in Workers : Worker(t)

Spec == Init /\ [][Next]_vars

\* Threads keep running their handlers, and a thread that waits for mutex_ gets
\* it: the sections under it are short and none of them blocks.
Fairness ==
  /\ WF_vars(Activate) /\ WF_vars(AcquireCleanup)
  /\ \A t \in Threads :
       /\ WF_vars(ReleaseReturn(t))
       /\ SF_vars(ReleaseCheck(t))

FairSpec == Spec /\ Fairness

-----------------------------------------------------------------------------
(* Properties.                                                             *)

\* The variables of SessionPool, Session, SessionManager and the threads.
PoolType ==
  /\ pool_size \in 0 .. MaxSize
  /\ reusable \in Seq(Idx)
  /\ available \in SUBSET Idx
  /\ pool_mutex \in Threads \cup {None}

SessType ==
  /\ life_state \in [Idx -> LifeStates]
  /\ state \in [Idx -> States]
  /\ session_id \in [Idx -> Ids \cup {None}]
  /\ registered \in [Idx -> BOOLEAN]

MgrType ==
  /\ bucket \in [Ids -> Idx \cup {None}]
  /\ next_id \in 0 .. MaxConns
  /\ logins \in SUBSET Idx
  /\ granted \in [Ids -> Idx \cup {None}]
  /\ late \in BOOLEAN

ThrType ==
  /\ pc \in [Threads -> PCs]
  /\ cur \in [Threads -> Idx \cup {None}]
  /\ removed \in [Threads -> Idx \cup {None}]
  /\ todo \in [Threads -> SUBSET Idx]

\* Types, and a thread inside remove_session past its null check holds a
\* session.
TypeOK ==
  /\ PoolType /\ SessType /\ MgrType /\ ThrType
  /\ \A t \in Threads : pc[t] \in Removing => removed[t] # None

\* The free list of SessionPool is sound whatever the threads do, late login
\* replies included: an index is queued at most once, the duplicate-check set
\* holds only queued indices, and a queued index that is not in the set (the
\* constructor does not insert into the set) was never handed out, so no
\* release() can slip past the check and queue it twice.
FreeListSound ==
  /\ \A i, j \in DOMAIN reusable : reusable[i] = reusable[j] => i = j
  /\ available \subseteq Range(reusable)
  /\ \A s \in Range(reusable) \ available : session_id[s] = None

\* A manager entry always leads to the session its id was given to, so the
\* branch of SessionManager::add_session that replaces another session under
\* the same id is never taken and a close only ever removes itself.
EntriesMatchGrants ==
  /\ \A id \in Ids : bucket[id] \in {None, granted[id]}
  /\ \A t \in Threads : pc[t] \in Removing => removed[t] = cur[t]

\* Sessions in the hands of the accept handler before add_session, and of
\* threads inside remove_session before the pool has them back.
Accepting == {cur[t] : t \in {t \in {Acceptor} : pc[t] \in Holding \cup {"add"}}}
Releasing == {removed[t] : t \in {t \in Threads : pc[t] \in Removing}}

\* Until a login reply reaches a session that is no longer managed, every
\* session of the pool has exactly one owner - the free list, the accept
\* handler, one manager entry or one releasing thread - through every
\* interleaving of accepts with stale and concurrent closes: none is lost to
\* the pool and none is free while a connection uses it.
SingleOwner ==
  late \/
    /\ 0 .. pool_size - 1 = Range(reusable) \cup Accepting \cup Managed \cup Releasing
    /\ Range(reusable) \cap (Accepting \cup Managed \cup Releasing) = {}
    /\ Accepting \cap (Managed \cup Releasing) = {}
    /\ Managed \cap Releasing = {}
    /\ \A i, j \in Ids : bucket[i] = bucket[j] /\ bucket[i] # None => i = j
    /\ \A t, u \in Threads :
         pc[t] \in Removing /\ pc[u] \in Removing /\ removed[t] = removed[u] => t = u

\* Threads inside close_session(), past try_close().
Closers(s) ==
  {t \in Threads : cur[t] = s /\ pc[t] \in Removing \cup {"closing", "finalize", "remove", "cleanup"}}

\* A session whose life_state_ makes try_close() fail is being closed by some
\* thread, whose last step makes it Idle: a recycled session can always be
\* closed again, however many stale closes hit it.
NeverWedged ==
  \A s \in Idx : try_close(s) \/ Closers(s) # {}

\* SessionPool::release asserts that an index is never returned twice
\* (SessionPool.cpp:106).
NoDoubleRelease ==
  \A t \in Threads : pc[t] = "release" /\ pool_mutex = None => removed[t] \notin available

Pool == INSTANCE SessionPoolSpec WITH
          Connections <- Ids, size <- pool_size, free <- Range(reusable), grant <- granted

\* acquire() and release(), run by any thread at any time and on sessions any
\* stale pointer leads to, implement the pool SessionPoolSpec promises: no
\* session is granted that is not free, none is taken back that is free, and
\* a grant that finds a free session never makes the pool grow.
ImplementsPool == Pool!Spec

\* A session taken out of the manager gets back into the free list.
RemovedReturns ==
  \A t \in Threads, s \in Idx :
    pc[t] = "release" /\ removed[t] = s ~> s \in Range(reusable)
================================================================================
