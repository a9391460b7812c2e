------------------------ MODULE SessionLifecycleProofs ------------------------
(***************************************************************************)
(* Invariance proofs for SessionLifecycle, for any number of threads,      *)
(* sessions and connections.  IInv is the inductive invariant: the types,  *)
(* what the program counters say about the threads' locals (PcOK), who     *)
(* holds the pool's mutex (MutexOK), how ids, grants and manager entries   *)
(* correspond (IdsOK) and the free list (FreeOK).                          *)
(***************************************************************************)
EXTENDS SessionLifecycle, TLAPS

\* Program counters at which cur[t] is the session the thread works on.
Working == PCs \ {"accept", "idle", "sweep", "next"}

PcOK ==
  \A t \in Threads :
    /\ pc[t] \in Holding \cup {"accept", "add", "sweep"} => t = Acceptor
    /\ pc[t] \in Working => cur[t] \in Idx /\ session_id[cur[t]] \in Ids
    /\ pc[t] \in Removing => removed[t] = cur[t]
    /\ \A s \in todo[t] : session_id[s] \in Ids

MutexOK ==
  \A t \in Threads : pool_mutex = t <=> pc[t] \in Holding \cup {"returning"}

IdsOK ==
  /\ \A s \in Idx : session_id[s] # None =>
       granted[session_id[s]] = s /\ session_id[s] < next_id
  /\ \A id \in Ids : bucket[id] \in {None, granted[id]}
  /\ \A id \in Ids : granted[id] # None => id < next_id /\ session_id[granted[id]] \in Ids
  /\ \A s \in logins : session_id[s] \in Ids

FreeOK ==
  /\ FreeListSound
  /\ \A t \in Threads : pc[t] = "returning" => removed[t] \notin available

Types == PoolType /\ SessType /\ MgrType /\ ThrType
IInv  == Types /\ PcOK /\ MutexOK /\ IdsOK /\ FreeOK

USE ConstantsAssumption DEF Threads, Idx, Ids, None, Free, Holding, Removing, PCs, LifeStates,
    States, Working, poolVars, sessVars, mgrVars, thrVars

-----------------------------------------------------------------------------
(* What is managed has an id.                                              *)

\* A session in the buckets is in the pool and was given an id.
LEMMA ManagedHasId ==
  ASSUME IInv, NEW s \in Managed PROVE s \in Idx /\ session_id[s] \in Ids
  BY DEF IInv, Types, MgrType, IdsOK, Managed, Range

-----------------------------------------------------------------------------
(* Each action preserves IInv.                                             *)

\* SessionPool::acquire hands out an index and reset() renames it.
LEMMA AcceptStep ==
  ASSUME IInv, Accept PROVE IInv'
<1> USE DEF IInv, Types
<1>1. PICK idx \in Idx :
        /\ Grant(idx)
        /\ reset(idx, next_id)
        /\ granted' = [granted EXCEPT ![next_id] = idx]
        /\ cur' = [cur EXCEPT ![Acceptor] = idx]
  BY DEF Accept
<1>2. /\ pc[Acceptor] = "accept" /\ pool_mutex = None /\ next_id < MaxConns
      /\ next_id' = next_id + 1 /\ pool_mutex' = Acceptor
      /\ pc' = [pc EXCEPT ![Acceptor] = "activate"]
      /\ UNCHANGED <<life_state, bucket, logins, todo, removed, late>>
  BY DEF Accept
<1>3. next_id \in Ids /\ next_id # None
  BY <1>2 DEF MgrType
<1>4. \/ /\ reusable = <<>> /\ pool_size < MaxSize /\ pool_size' = pool_size + 1
         /\ UNCHANGED <<reusable, available>>
      \/ /\ reusable # <<>> /\ idx = Head(reusable) /\ reusable' = Tail(reusable)
         /\ available' = available \ {idx} /\ UNCHANGED pool_size
  BY <1>1 DEF Grant
<1>4a. reusable # <<>> => Tail(reusable) \in Seq(Idx)
  BY DEF PoolType
<1>4b. PoolType'
  <2>1. reusable' \in Seq(Idx) /\ available' \in SUBSET Idx
    BY <1>4, <1>4a DEF PoolType
  <2>2. pool_size' \in 0 .. MaxSize
    BY <1>4 DEF PoolType
  <2>3. pool_mutex' \in Threads \cup {None}
    BY <1>2
  <2>4. QED
    BY <2>1, <2>2, <2>3 DEF PoolType
<1>5. SessType'
  BY <1>1, <1>2, <1>3 DEF SessType, reset
<1>6. MgrType'
  BY <1>1, <1>2, <1>3 DEF MgrType
<1>7. ThrType'
  BY <1>1, <1>2 DEF ThrType
<1>8. PcOK'
  BY <1>1, <1>2, <1>3 DEF PcOK, ThrType, SessType, reset
<1>9. MutexOK'
  BY <1>2 DEF MutexOK, ThrType, PoolType
<1>10. IdsOK'
  <2>1. /\ session_id' = [session_id EXCEPT ![idx] = next_id]
        /\ granted' = [granted EXCEPT ![next_id] = idx]
    BY <1>1 DEF reset
  <2>2. granted[next_id] = None /\ bucket[next_id] = None
    BY <1>3 DEF IdsOK, MgrType
  <2>3. \A s \in Idx : session_id'[s] # None =>
          granted'[session_id'[s]] = s /\ session_id'[s] < next_id'
    BY <1>2, <1>3, <2>1 DEF IdsOK, SessType, MgrType
  <2>4. \A id \in Ids : bucket'[id] \in {None, granted'[id]}
    BY <1>2, <1>3, <2>1, <2>2 DEF IdsOK, MgrType
  <2>5. \A id \in Ids : granted'[id] # None =>
          id < next_id' /\ session_id'[granted'[id]] \in Ids
    BY <1>2, <1>3, <2>1 DEF IdsOK, SessType, MgrType
  <2>6. \A s \in logins' : session_id'[s] \in Ids
    BY <1>2, <1>3, <2>1 DEF IdsOK, SessType, MgrType
  <2>7. QED
    BY <2>3, <2>4, <2>5, <2>6 DEF IdsOK
<1>11. FreeOK'
  <2>1. \A t \in Threads : pc'[t] # "returning"
    BY <1>2 DEF MutexOK, ThrType
  <2>2. CASE reusable = <<>>
    <3>1. reusable' = reusable /\ available' = available /\ DOMAIN reusable = {}
      BY <1>4, <2>2
    <3>2. QED
      BY <2>1, <3>1 DEF FreeOK, FreeListSound, Range
  <2>3. CASE reusable # <<>>
    <3>1. /\ reusable' = Tail(reusable) /\ available' = available \ {idx}
          /\ idx = reusable[1]
      BY <1>4, <2>3 DEF PoolType
    <3>2. /\ DOMAIN reusable = 1 .. Len(reusable)
          /\ DOMAIN reusable' = 1 .. Len(reusable) - 1
          /\ \A i \in DOMAIN reusable' : reusable'[i] = reusable[i + 1]
      BY <3>1, <2>3 DEF PoolType
    <3>3. \A i, j \in DOMAIN reusable : reusable[i] = reusable[j] => i = j
      BY DEF FreeOK, FreeListSound
    <3>4. Len(reusable) \in Nat
      BY DEF PoolType
    <3>5. \A i, j \in DOMAIN reusable' : reusable'[i] = reusable'[j] => i = j
      BY <3>2, <3>3, <3>4
    <3>6. Range(reusable') = Range(reusable) \ {idx}
      <4>1. \A i \in DOMAIN reusable' : reusable'[i] \in Range(reusable) \ {idx}
        BY <3>1, <3>2, <3>3, <3>4 DEF Range
      <4>2. ASSUME NEW s \in Range(reusable) \ {idx} PROVE s \in Range(reusable')
        <5>1. PICK i \in DOMAIN reusable : reusable[i] = s
          BY DEF Range
        <5>2. i - 1 \in DOMAIN reusable' /\ reusable'[i - 1] = s
          BY <3>1, <3>2, <3>4, <5>1
        <5>3. QED
          BY <5>2 DEF Range
      <4>3. QED
        BY <4>1, <4>2 DEF Range
    <3>7. available' \subseteq Range(reusable')
      BY <3>1, <3>6 DEF FreeOK, FreeListSound
    <3>8. \A s \in Range(reusable') \ available' : session_id'[s] = None
      BY <1>1, <3>1, <3>6 DEF FreeOK, FreeListSound, SessType, reset
    <3>9. QED
      BY <2>1, <3>5, <3>7, <3>8 DEF FreeOK, FreeListSound
  <2>4. QED
    BY <2>2, <2>3
<1>12. QED
  BY <1>4b, <1>5, <1>6, <1>7, <1>8, <1>9, <1>10, <1>11

\* A connection that finds the pool exhausted only spends an id.
LEMMA RejectStep ==
  ASSUME IInv, Reject PROVE IInv'
<1> USE DEF IInv, Types, Reject
<1>1. PoolType' /\ SessType' /\ MgrType' /\ ThrType'
  BY DEF PoolType, SessType, MgrType, ThrType, PcOK, IdsOK
<1>2. PcOK'
  BY DEF PoolType, SessType, MgrType, ThrType, PcOK, IdsOK
<1>3. MutexOK'
  BY DEF PoolType, SessType, MgrType, ThrType, PcOK, MutexOK
<1>4. IdsOK'
  BY DEF PoolType, SessType, MgrType, ThrType, PcOK, IdsOK
<1>5. FreeOK'
  BY DEF PoolType, SessType, MgrType, ThrType, PcOK, MutexOK, IdsOK, FreeOK, FreeListSound, Range
<1>6. QED
  BY <1>1, <1>2, <1>3, <1>4, <1>5

\* set_active(true) moves life_state_ only.
LEMMA ActivateStep ==
  ASSUME IInv, Activate PROVE IInv'
<1> USE DEF IInv, Types, Activate
<1>1. PoolType' /\ SessType' /\ MgrType' /\ ThrType'
  BY DEF PoolType, SessType, MgrType, ThrType, PcOK, IdsOK
<1>2. PcOK'
  BY DEF PoolType, SessType, MgrType, ThrType, PcOK, IdsOK
<1>3. MutexOK'
  BY DEF PoolType, SessType, MgrType, ThrType, PcOK, MutexOK
<1>4. IdsOK'
  BY DEF PoolType, SessType, MgrType, ThrType, PcOK, IdsOK
<1>5. FreeOK'
  BY DEF PoolType, SessType, MgrType, ThrType, PcOK, MutexOK, IdsOK, FreeOK, FreeListSound, Range
<1>6. QED
  BY <1>1, <1>2, <1>3, <1>4, <1>5

\* acquire()'s cleanup() and the release of the pool mutex.
LEMMA AcquireCleanupStep ==
  ASSUME IInv, AcquireCleanup PROVE IInv'
<1> USE DEF IInv, Types, AcquireCleanup, cleanup
<1>1. PoolType' /\ SessType' /\ MgrType' /\ ThrType'
  BY DEF PoolType, SessType, MgrType, ThrType, PcOK, IdsOK
<1>2. PcOK'
  BY DEF PoolType, SessType, MgrType, ThrType, PcOK, IdsOK
<1>3. MutexOK'
  BY DEF PoolType, SessType, MgrType, ThrType, PcOK, MutexOK
<1>4. IdsOK'
  BY DEF PoolType, SessType, MgrType, ThrType, PcOK, IdsOK
<1>5. FreeOK'
  BY DEF PoolType, SessType, MgrType, ThrType, PcOK, MutexOK, IdsOK, FreeOK, FreeListSound, Range
<1>6. QED
  BY <1>1, <1>2, <1>3, <1>4, <1>5

\* The new connection is filed under the id it was granted.
LEMMA AddAcceptedStep ==
  ASSUME IInv, AddAccepted PROVE IInv'
<1> USE DEF IInv, Types, AddAccepted, add_session
<1>1. PoolType' /\ SessType' /\ MgrType' /\ ThrType'
  BY DEF PoolType, SessType, MgrType, ThrType, PcOK, IdsOK
<1>2. PcOK'
  BY DEF PoolType, SessType, MgrType, ThrType, PcOK, IdsOK
<1>3. MutexOK'
  BY DEF PoolType, SessType, MgrType, ThrType, PcOK, MutexOK
<1>4. IdsOK'
  BY DEF PoolType, SessType, MgrType, ThrType, PcOK, IdsOK
<1>5. FreeOK'
  BY DEF PoolType, SessType, MgrType, ThrType, PcOK, MutexOK, IdsOK, FreeOK, FreeListSound, Range
<1>6. QED
  BY <1>1, <1>2, <1>3, <1>4, <1>5

\* cleanup_unauth_sessions collects sessions that have ids.
LEMMA CleanupUnauthStep ==
  ASSUME IInv, CleanupUnauth PROVE IInv'
<1> USE DEF IInv, Types
<1>1. /\ pc[Acceptor] = "sweep"
      /\ UNCHANGED <<poolVars, sessVars, mgrVars, cur, removed, granted, late>>
      /\ \/ pc' = [pc EXCEPT ![Acceptor] = "accept"] /\ todo' = todo
         \/ /\ pc' = [pc EXCEPT ![Acceptor] = "next"]
            /\ \E S \in SUBSET Managed : todo' = [todo EXCEPT ![Acceptor] = S]
  <2> DEFINE unauth == {id \in Ids : bucket[id] # None /\ state[bucket[id]] = "Handshaking"}
  <2>1. \A v \in SUBSET unauth : {bucket[id] : id \in v} \in SUBSET Managed
    <3>1. \A id \in unauth : bucket[id] \in Managed
      BY DEF Managed, Range, MgrType
    <3>2. QED
      BY <3>1
  <2>2. QED
    BY <2>1 DEF CleanupUnauth
<1>2. /\ todo' \in [Threads -> SUBSET Idx]
      /\ \A t \in Threads : \A s \in todo'[t] : session_id[s] \in Ids
  BY <1>1, ManagedHasId DEF ThrType, PcOK
<1>3. PoolType' /\ SessType' /\ MgrType' /\ ThrType'
  BY <1>1, <1>2 DEF PoolType, SessType, MgrType, ThrType
<1>4. PcOK'
  BY <1>1, <1>2 DEF ThrType, PcOK
<1>5. MutexOK'
  BY <1>1 DEF ThrType, MutexOK
<1>6. IdsOK'
  BY <1>1 DEF IdsOK
<1>7. FreeOK'
  BY <1>1 DEF ThrType, FreeOK, FreeListSound, Range
<1>8. QED
  BY <1>3, <1>4, <1>5, <1>6, <1>7

\* A login request keeps a pointer to a session that has an id.
LEMMA RequestLoginStep ==
  ASSUME IInv, RequestLogin PROVE IInv'
<1> USE DEF IInv, Types
<1>1. PICK s \in Managed : logins' = logins \cup {s}
  BY DEF RequestLogin
<1>2. s \in Idx /\ session_id[s] \in Ids
  BY ManagedHasId
<1>3. UNCHANGED <<poolVars, sessVars, bucket, next_id, thrVars, granted, late>>
  BY DEF RequestLogin
<1>4. PoolType' /\ SessType' /\ MgrType' /\ ThrType'
  BY <1>1, <1>2, <1>3 DEF PoolType, SessType, MgrType, ThrType
<1>5. PcOK' /\ MutexOK'
  BY <1>3 DEF PcOK, MutexOK
<1>6. IdsOK'
  BY <1>1, <1>2, <1>3 DEF IdsOK
<1>7. FreeOK'
  BY <1>3 DEF FreeOK, FreeListSound, Range
<1>8. QED
  BY <1>4, <1>5, <1>6, <1>7

\* The three ways a worker collects pointers to close.
LEMMA CollectStep ==
  ASSUME NEW t \in Workers, NEW S, IInv, Collect(t, S),
         \A s \in S : s \in Idx /\ session_id[s] \in Ids
  PROVE  IInv'
<1> USE DEF IInv, Types, Collect
<1>1. \A s \in S : s \in Idx /\ session_id[s] \in Ids
  OBVIOUS
<1>2. PoolType' /\ SessType' /\ MgrType' /\ ThrType'
  BY <1>1 DEF PoolType, SessType, MgrType, ThrType
<1>3. PcOK'
  BY <1>1 DEF ThrType, PcOK
<1>4. MutexOK' /\ IdsOK'
  BY DEF ThrType, MutexOK, IdsOK
<1>5. FreeOK'
  BY DEF ThrType, FreeOK, FreeListSound, Range
<1>6. QED
  BY <1>2, <1>3, <1>4, <1>5

\* A login reply, late or not, files a session under its own id.
LEMMA LoginAddStep ==
  ASSUME NEW t \in Workers, IInv, LoginAdd(t) PROVE IInv'
<1> USE DEF IInv, Types, LoginAdd, add_session
<1>1. PoolType' /\ SessType' /\ MgrType' /\ ThrType'
  BY DEF PoolType, SessType, MgrType, ThrType, PcOK, IdsOK
<1>2. PcOK'
  BY DEF PoolType, SessType, MgrType, ThrType, PcOK, IdsOK
<1>3. MutexOK'
  BY DEF PoolType, SessType, MgrType, ThrType, PcOK, MutexOK
<1>4. IdsOK'
  BY DEF PoolType, SessType, MgrType, ThrType, PcOK, IdsOK
<1>5. FreeOK'
  BY DEF PoolType, SessType, MgrType, ThrType, PcOK, MutexOK, IdsOK, FreeOK, FreeListSound, Range
<1>6. QED
  BY <1>1, <1>2, <1>3, <1>4, <1>5

\* on_nickname_registered changes words the invariant ignores.
LEMMA LoginRegisterStep ==
  ASSUME NEW t \in Workers, IInv, LoginRegister(t) PROVE IInv'
<1> USE DEF IInv, Types, LoginRegister
<1>1. PoolType' /\ SessType' /\ MgrType' /\ ThrType'
  BY DEF PoolType, SessType, MgrType, ThrType, PcOK, IdsOK
<1>2. PcOK'
  BY DEF PoolType, SessType, MgrType, ThrType, PcOK, IdsOK
<1>3. MutexOK'
  BY DEF PoolType, SessType, MgrType, ThrType, PcOK, MutexOK
<1>4. IdsOK'
  BY DEF PoolType, SessType, MgrType, ThrType, PcOK, IdsOK
<1>5. FreeOK'
  BY DEF PoolType, SessType, MgrType, ThrType, PcOK, MutexOK, IdsOK, FreeOK, FreeListSound, Range
<1>6. QED
  BY <1>1, <1>2, <1>3, <1>4, <1>5

\* try_close() takes a session off the thread's list.
LEMMA CloseBeginStep ==
  ASSUME NEW t \in Threads, IInv, CloseBegin(t) PROVE IInv'
<1> USE DEF IInv, Types
<1>1. PICK s \in todo[t] :
        /\ todo' = [todo EXCEPT ![t] = @ \ {s}]
        /\ \/ /\ life_state' = [life_state EXCEPT ![s] = "Closing"]
              /\ cur' = [cur EXCEPT ![t] = s]
              /\ pc' = [pc EXCEPT ![t] = "closing"]
           \/ /\ pc' = [pc EXCEPT ![t] = Return(t)']
              /\ UNCHANGED <<life_state, cur>>
  BY DEF CloseBegin
<1>2. /\ pc[t] = "next"
      /\ UNCHANGED <<poolVars, state, session_id, registered, mgrVars, removed, granted, late>>
  BY DEF CloseBegin
<1>3. s \in Idx /\ session_id[s] \in Ids
  BY <1>1 DEF ThrType, PcOK
<1>4. Return(t)' \in {"next", "idle"} \/ (Return(t)' = "accept" /\ t = Acceptor)
  BY DEF Return
<1>5. PoolType' /\ MgrType'
  BY <1>2 DEF PoolType, MgrType
<1>6. SessType'
  BY <1>1, <1>2, <1>3 DEF SessType
<1>7. ThrType'
  BY <1>1, <1>2, <1>3, <1>4 DEF ThrType
<1>8. PcOK'
  BY <1>1, <1>2, <1>3, <1>4 DEF ThrType, PcOK
<1>9. MutexOK'
  BY <1>1, <1>2, <1>4 DEF ThrType, MutexOK
<1>10. IdsOK'
  BY <1>2 DEF IdsOK
<1>11. FreeOK'
  BY <1>1, <1>2, <1>4 DEF ThrType, FreeOK, FreeListSound, Range
<1>12. QED
  BY <1>5, <1>6, <1>7, <1>8, <1>9, <1>10, <1>11

\* set_state(Closed) and the socket.
LEMMA CloseSocketStep ==
  ASSUME NEW t \in Threads, IInv, CloseSocket(t) PROVE IInv'
<1> USE DEF IInv, Types, CloseSocket
<1>1. PoolType' /\ SessType' /\ MgrType' /\ ThrType'
  BY DEF PoolType, SessType, MgrType, ThrType, PcOK, IdsOK
<1>2. PcOK'
  BY DEF PoolType, SessType, MgrType, ThrType, PcOK, IdsOK
<1>3. MutexOK'
  BY DEF PoolType, SessType, MgrType, ThrType, PcOK, MutexOK
<1>4. IdsOK'
  BY DEF PoolType, SessType, MgrType, ThrType, PcOK, IdsOK
<1>5. FreeOK'
  BY DEF PoolType, SessType, MgrType, ThrType, PcOK, MutexOK, IdsOK, FreeOK, FreeListSound, Range
<1>6. QED
  BY <1>1, <1>2, <1>3, <1>4, <1>5

\* finalize_close() moves life_state_ only.
LEMMA FinalizeCloseStep ==
  ASSUME NEW t \in Threads, IInv, FinalizeClose(t) PROVE IInv'
<1> USE DEF IInv, Types, FinalizeClose
<1>1. PoolType' /\ SessType' /\ MgrType' /\ ThrType'
  BY DEF PoolType, SessType, MgrType, ThrType, PcOK, IdsOK
<1>2. PcOK'
  BY DEF PoolType, SessType, MgrType, ThrType, PcOK, IdsOK
<1>3. MutexOK'
  BY DEF PoolType, SessType, MgrType, ThrType, PcOK, MutexOK
<1>4. IdsOK'
  BY DEF PoolType, SessType, MgrType, ThrType, PcOK, IdsOK
<1>5. FreeOK'
  BY DEF PoolType, SessType, MgrType, ThrType, PcOK, MutexOK, IdsOK, FreeOK, FreeListSound, Range
<1>6. QED
  BY <1>1, <1>2, <1>3, <1>4, <1>5

\* remove_session takes the session's own entry out of its bucket.
LEMMA RemoveSessionStep ==
  ASSUME NEW t \in Threads, IInv, RemoveSession(t) PROVE IInv'
<1> USE DEF IInv, Types
<1> DEFINE id == session_id[cur[t]]
<1>1. /\ pc[t] = "remove"
      /\ removed' = [removed EXCEPT ![t] = bucket[id]]
      /\ bucket' = [bucket EXCEPT ![id] = None]
      /\ pc' = [pc EXCEPT ![t] = IF bucket[id] # None THEN "release" ELSE "cleanup"]
      /\ UNCHANGED <<poolVars, sessVars, next_id, logins, cur, todo, granted, late>>
  BY DEF RemoveSession, Take, Found
<1>2. cur[t] \in Idx /\ id \in Ids
  BY <1>1 DEF PcOK
<1>3. bucket[id] \in {None, cur[t]}
  BY <1>2 DEF SessType, IdsOK
<1> HIDE DEF id
<1>4. PoolType' /\ SessType'
  BY <1>1 DEF PoolType, SessType
<1>5. MgrType'
  BY <1>1, <1>2 DEF MgrType
<1>6. ThrType'
  BY <1>1, <1>2, <1>3 DEF ThrType
<1>7. PcOK'
  BY <1>1, <1>2, <1>3 DEF ThrType, PcOK
<1>8. MutexOK'
  BY <1>1 DEF ThrType, MutexOK
<1>9. IdsOK'
  BY <1>1, <1>2 DEF MgrType, IdsOK
<1>10. FreeOK'
  BY <1>1 DEF ThrType, FreeOK, FreeListSound, Range
<1>11. QED
  BY <1>4, <1>5, <1>6, <1>7, <1>8, <1>9, <1>10

\* release() under the pool mutex up to its duplicate check.
LEMMA ReleaseCheckStep ==
  ASSUME NEW t \in Threads, IInv, ReleaseCheck(t) PROVE IInv'
<1> USE DEF IInv, Types
<1>1. /\ pc[t] = "release" /\ pool_mutex = None
      /\ UNCHANGED <<pool_size, reusable, available, state, session_id, mgrVars, cur, todo,
                     granted, late>>
  BY DEF ReleaseCheck
<1>2. removed[t] = cur[t] /\ cur[t] \in Idx
  BY <1>1 DEF PcOK
<1>3. CASE MayReturn(removed[t])
  <2>1. /\ life_state' = [life_state EXCEPT ![removed[t]] = "Idle"]
        /\ registered' = [registered EXCEPT ![removed[t]] = FALSE]
        /\ pool_mutex' = t
        /\ pc' = [pc EXCEPT ![t] = "returning"]
        /\ removed' = removed
        /\ removed[t] \notin available
    BY <1>3 DEF ReleaseCheck, cleanup, MayReturn
  <2>2. PoolType' /\ MgrType'
    BY <1>1, <2>1 DEF PoolType, MgrType
  <2>3. SessType'
    BY <1>1, <1>2, <2>1 DEF SessType
  <2>4. ThrType'
    BY <1>1, <2>1 DEF ThrType
  <2>5. PcOK' /\ MutexOK'
    BY <1>1, <2>1 DEF ThrType, PoolType, PcOK, MutexOK
  <2>6. IdsOK' /\ FreeOK'
    BY <1>1, <2>1 DEF ThrType, IdsOK, FreeOK, FreeListSound, Range
  <2>7. QED
    BY <2>2, <2>3, <2>4, <2>5, <2>6
<1>4. CASE ~MayReturn(removed[t])
  <2>1. /\ removed' = [removed EXCEPT ![t] = None]
        /\ pc' = [pc EXCEPT ![t] = "cleanup"]
        /\ UNCHANGED <<life_state, registered, pool_mutex>>
    BY <1>4 DEF ReleaseCheck
  <2>2. PoolType' /\ MgrType' /\ SessType'
    BY <1>1, <2>1 DEF PoolType, MgrType, SessType
  <2>3. ThrType'
    BY <1>1, <2>1 DEF ThrType
  <2>4. PcOK' /\ MutexOK'
    BY <1>1, <2>1 DEF ThrType, PcOK, MutexOK
  <2>5. IdsOK' /\ FreeOK'
    BY <1>1, <2>1 DEF ThrType, IdsOK, FreeOK, FreeListSound, Range
  <2>6. QED
    BY <2>2, <2>3, <2>4, <2>5
<1>5. QED
  BY <1>3, <1>4

\* release() queues an index that was not queued.
LEMMA ReleaseReturnStep ==
  ASSUME NEW t \in Threads, IInv, ReleaseReturn(t) PROVE IInv'
<1> USE DEF IInv, Types
<1> DEFINE idx == removed[t]
<1>1. /\ pc[t] = "returning"
      /\ life_state' = [life_state EXCEPT ![idx] = "Released"]
      /\ reusable' = Append(reusable, idx) /\ available' = available \cup {idx}
      /\ pool_mutex' = None
      /\ removed' = [removed EXCEPT ![t] = None]
      /\ pc' = [pc EXCEPT ![t] = "cleanup"]
      /\ UNCHANGED <<pool_size, state, session_id, registered, mgrVars, cur, todo, granted, late>>
  BY DEF ReleaseReturn, ReturnIndex
<1>2. idx \in Idx /\ session_id[idx] \in Ids /\ idx \notin available /\ pool_mutex = t
  BY <1>1 DEF PcOK, MutexOK, FreeOK
<1> HIDE DEF idx
<1>3. idx \notin Range(reusable)
  BY <1>2 DEF FreeOK, FreeListSound
<1>4. /\ DOMAIN reusable = 1 .. Len(reusable) /\ Len(reusable) \in Nat
      /\ DOMAIN reusable' = 1 .. Len(reusable) + 1
      /\ \A i \in DOMAIN reusable : reusable'[i] = reusable[i]
      /\ reusable'[Len(reusable) + 1] = idx
  BY <1>1, <1>2 DEF PoolType
<1>5. PoolType' /\ MgrType'
  BY <1>1, <1>2 DEF PoolType, MgrType
<1>6. SessType'
  BY <1>1, <1>2 DEF SessType
<1>7. ThrType'
  BY <1>1 DEF ThrType
<1>8. PcOK' /\ IdsOK'
  BY <1>1 DEF ThrType, PcOK, IdsOK
<1>9. MutexOK'
  BY <1>1, <1>2 DEF ThrType, MutexOK
<1>10. FreeOK'
  <2>1. Range(reusable') = Range(reusable) \cup {idx}
    BY <1>4 DEF Range
  <2>2. \A i, j \in DOMAIN reusable' : reusable'[i] = reusable'[j] => i = j
    <3>1. \A i \in DOMAIN reusable : reusable[i] # idx
      BY <1>3 DEF Range
    <3>2. QED
      BY <1>4, <3>1 DEF FreeOK, FreeListSound
  <2>3. available' \subseteq Range(reusable')
    BY <1>1, <2>1 DEF FreeOK, FreeListSound
  <2>4. \A s \in Range(reusable') \ available' : session_id'[s] = None
    BY <1>1, <2>1 DEF FreeOK, FreeListSound
  <2>5. \A u \in Threads : pc'[u] # "returning"
    BY <1>1, <1>9 DEF MutexOK
  <2>6. QED
    BY <2>2, <2>3, <2>4, <2>5 DEF FreeOK, FreeListSound
<1>11. QED
  BY <1>5, <1>6, <1>7, <1>8, <1>9, <1>10

\* close_session()'s last cleanup().
LEMMA CloseCleanupStep ==
  ASSUME NEW t \in Threads, IInv, CloseCleanup(t) PROVE IInv'
<1> USE DEF IInv, Types, CloseCleanup, cleanup, Return
<1>1. PoolType' /\ SessType' /\ MgrType' /\ ThrType'
  BY DEF PoolType, SessType, MgrType, ThrType, PcOK, IdsOK
<1>2. PcOK'
  BY DEF PoolType, SessType, MgrType, ThrType, PcOK, IdsOK
<1>3. MutexOK'
  BY DEF PoolType, SessType, MgrType, ThrType, PcOK, MutexOK
<1>4. IdsOK'
  BY DEF PoolType, SessType, MgrType, ThrType, PcOK, IdsOK
<1>5. FreeOK'
  BY DEF PoolType, SessType, MgrType, ThrType, PcOK, MutexOK, IdsOK, FreeOK, FreeListSound, Range
<1>6. QED
  BY <1>1, <1>2, <1>3, <1>4, <1>5

\* The invariant depends on the variables of the model only.
LEMMA StutterStep ==
  ASSUME IInv, UNCHANGED vars PROVE IInv'
  BY DEF vars, IInv, Types, PoolType, SessType, MgrType, ThrType, PcOK, MutexOK, IdsOK, FreeOK,
         FreeListSound, Range

-----------------------------------------------------------------------------
\* The constructor's free list satisfies the invariant.
LEMMA InitIInv ==
  ASSUME Init PROVE IInv
<1> USE DEF Init
<1>1. /\ reusable \in Seq(Idx) /\ DOMAIN reusable = 1 .. PoolSize
      /\ \A i \in DOMAIN reusable : reusable[i] = i - 1
  OBVIOUS
<1>2. PoolType
  BY <1>1 DEF PoolType
<1>3a. SessType
  BY DEF SessType
<1>3b. MgrType
  <2>1. bucket \in [Ids -> Idx \cup {None}] /\ granted \in [Ids -> Idx \cup {None}]
    OBVIOUS
  <2>2. next_id \in 0 .. MaxConns /\ logins \in SUBSET Idx
    OBVIOUS
  <2>3. late \in BOOLEAN
    OBVIOUS
  <2>4. QED
    BY <2>1, <2>2, <2>3 DEF MgrType
<1>3c. ThrType
  BY DEF ThrType
<1>4. PcOK /\ MutexOK /\ IdsOK
  BY DEF PcOK, MutexOK, IdsOK
<1>5. FreeOK
  BY <1>1 DEF FreeOK, FreeListSound, Range
<1>6. QED
  BY <1>2, <1>3a, <1>3b, <1>3c, <1>4, <1>5 DEF IInv, Types

\* Every step of every thread keeps the invariant.
LEMMA NextIInv ==
  ASSUME IInv, [Next]_vars PROVE IInv'
<1>1. ASSUME NEW t \in Threads, CloseSession(t) PROVE IInv'
  BY <1>1, CloseBeginStep, CloseSocketStep, FinalizeCloseStep, RemoveSessionStep,
     ReleaseCheckStep, ReleaseReturnStep, CloseCleanupStep DEF CloseSession
<1>2. ASSUME NEW t \in Workers, Worker(t) PROVE IInv'
  <2>1. ASSUME NEW S \in SUBSET Managed, Collect(t, S) PROVE IInv'
    BY <2>1, CollectStep, ManagedHasId
  <2>2. CASE KeepaliveCheck(t)
    BY <2>1, <2>2 DEF KeepaliveCheck
  <2>3. CASE CleanupInactive(t)
    BY <2>1, <2>3 DEF CleanupInactive
  <2>4. CASE HandlerClose(t)
    <3>1. PICK s \in Idx : session_id[s] # None /\ Collect(t, {s})
      BY <2>4 DEF HandlerClose
    <3>2. session_id[s] \in Ids
      BY <3>1 DEF IInv, Types, SessType
    <3>3. QED
      BY <3>1, <3>2, CollectStep
  <2>5. QED
    BY <1>2, <2>2, <2>3, <2>4, LoginAddStep, LoginRegisterStep DEF Worker
<1>3. CASE AcceptLoop
  BY <1>3, AcceptStep, RejectStep, ActivateStep, AcquireCleanupStep, AddAcceptedStep,
     CleanupUnauthStep DEF AcceptLoop
<1>4. CASE UNCHANGED vars
  BY <1>4, StutterStep
<1>5. QED
  BY <1>1, <1>2, <1>3, <1>4, RequestLoginStep DEF Next

\* The conjunction IInv is an invariant of the specification.
THEOREM Inductive == Spec => []IInv
<1>1. Init => IInv
  BY InitIInv
<1>2. IInv /\ [Next]_vars => IInv'
  BY NextIInv
<1>3. QED
  BY <1>1, <1>2, PTL DEF Spec

\* Type correctness, for every number of threads, sessions and connections.
THEOREM TypeCorrect == Spec => []TypeOK
<1>1. IInv => TypeOK
  BY DEF IInv, Types, TypeOK, PcOK
<1>2. QED
  BY <1>1, Inductive, PTL

\* SessionPool's free list never holds an index twice and its duplicate check
\* is complete, late login replies included.
THEOREM FreeListCorrect == Spec => []FreeListSound
<1>1. IInv => FreeListSound
  BY DEF IInv, FreeOK
<1>2. QED
  BY <1>1, Inductive, PTL

\* An entry of SessionManager leads to the session its id was granted to, and
\* a close removes no session but its own.
THEOREM EntriesCorrect == Spec => []EntriesMatchGrants
<1>1. IInv => EntriesMatchGrants
  BY DEF IInv, IdsOK, PcOK, EntriesMatchGrants
<1>2. QED
  BY <1>1, Inductive, PTL

===============================================================================
