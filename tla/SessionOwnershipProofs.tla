------------------------ MODULE SessionOwnershipProofs ------------------------
(***************************************************************************)
(* Three results about SessionLifecycle that rest on its inductive         *)
(* invariant IInv: a session can always be closed again (NeverWedged),     *)
(* every session has one owner as long as no late login reply has been     *)
(* applied (SingleOwner), and the pool implements SessionPoolSpec.         *)
(***************************************************************************)
EXTENDS SessionLifecycleProofs

USE ConstantsAssumption DEF Threads, Idx, Ids, None, Free, Holding, Removing, PCs, LifeStates,
    States, Working, poolVars, sessVars, mgrVars, thrVars

-----------------------------------------------------------------------------
(* NeverWedged.                                                            *)

\* What a step must do for session s: leave it closable, leave a thread at
\* work on it, or touch neither its life_state_ nor such a thread.
Kept(s) ==
  \/ life_state'[s] \in {"Active", "Idle"}
  \/ \E t \in Threads : t \in Closers(s)'
  \/ life_state'[s] = life_state[s] /\ \A t \in Threads : t \in Closers(s) => t \in Closers(s)'

\* NeverWedged survives a step that keeps its words for every session.
LEMMA KeptSuffices ==
  ASSUME NeverWedged, \A s \in Idx : Kept(s) PROVE NeverWedged'
  BY DEF NeverWedged, Kept, Closers, try_close

\* A step that changes neither life_state_ nor a thread inside close_session.
LEMMA Untouched ==
  ASSUME NeverWedged, life_state' = life_state, NEW t \in Threads,
         pc[t] \notin Removing \cup {"closing", "finalize", "remove", "cleanup"},
         \A u \in Threads \ {t} : pc'[u] = pc[u] /\ cur'[u] = cur[u]
  PROVE  NeverWedged'
<1>1. \A s \in Idx : Kept(s)
  BY DEF Kept, Closers
<1>2. QED
  BY <1>1, KeptSuffices

\* Every step leaves each session closable or in the hands of a closer.
LEMMA WedgeStep ==
  ASSUME IInv, NeverWedged, [Next]_vars PROVE NeverWedged'
<1> USE DEF IInv, Types, SessType, ThrType
<1>1. ASSUME NEW t \in Threads, CloseBegin(t) PROVE NeverWedged'
  <2>1. PICK s \in todo[t] :
          \/ /\ life_state' = [life_state EXCEPT ![s] = "Closing"]
             /\ cur' = [cur EXCEPT ![t] = s]
             /\ pc' = [pc EXCEPT ![t] = "closing"]
          \/ /\ pc' = [pc EXCEPT ![t] = Return(t)']
             /\ UNCHANGED <<life_state, cur>>
    BY <1>1 DEF CloseBegin
  <2>2. pc[t] = "next" /\ s \in Idx
    BY <1>1, <2>1 DEF CloseBegin
  <2>3. CASE UNCHANGED <<life_state, cur>> /\ pc' = [pc EXCEPT ![t] = Return(t)']
    BY <2>2, <2>3, Untouched
  <2>4. CASE /\ life_state' = [life_state EXCEPT ![s] = "Closing"]
             /\ cur' = [cur EXCEPT ![t] = s]
             /\ pc' = [pc EXCEPT ![t] = "closing"]
    <3>1. t \in Closers(s)'
      BY <2>2, <2>4 DEF Closers
    <3>2. \A r \in Idx \ {s} : Kept(r)
      BY <2>2, <2>4 DEF Kept, Closers
    <3>3. QED
      BY <3>1, <3>2, KeptSuffices DEF Kept
  <2>5. QED
    BY <2>1, <2>3, <2>4
<1>2. ASSUME NEW t \in Threads, CloseSocket(t) PROVE NeverWedged'
  <2>1. \A s \in Idx : Kept(s)
    BY <1>2 DEF CloseSocket, Kept, Closers
  <2>2. QED
    BY <2>1, KeptSuffices
<1>3. ASSUME NEW t \in Threads, FinalizeClose(t) PROVE NeverWedged'
  <2>1. \A s \in Idx \ {cur[t]} : Kept(s)
    BY <1>3 DEF FinalizeClose, Kept, Closers
  <2>2. t \in Closers(cur[t])'
    BY <1>3 DEF FinalizeClose, Closers
  <2>3. Kept(cur[t])
    BY <1>3, <2>2 DEF Kept, Closers, FinalizeClose
  <2>4. QED
    BY <2>1, <2>3, KeptSuffices
<1>4. ASSUME NEW t \in Threads, RemoveSession(t) PROVE NeverWedged'
  <2>1. \A s \in Idx : Kept(s)
    BY <1>4 DEF RemoveSession, Kept, Closers
  <2>2. QED
    BY <2>1, KeptSuffices
<1>5. ASSUME NEW t \in Threads, ReleaseCheck(t) PROVE NeverWedged'
  <2>1. CASE MayReturn(removed[t])
    <3>1. \A s \in Idx : Kept(s)
      BY <1>5, <2>1 DEF ReleaseCheck, cleanup, Kept, Closers
    <3>2. QED
      BY <3>1, KeptSuffices
  <2>2. CASE ~MayReturn(removed[t])
    <3>1. \A s \in Idx : Kept(s)
      BY <1>5, <2>2 DEF ReleaseCheck, Kept, Closers
    <3>2. QED
      BY <3>1, KeptSuffices
  <2>3. QED
    BY <2>1, <2>2
<1>6. ASSUME NEW t \in Threads, ReleaseReturn(t) PROVE NeverWedged'
  <2>1. removed[t] = cur[t] /\ cur' = cur /\ pc' = [pc EXCEPT ![t] = "cleanup"]
        /\ life_state' = [life_state EXCEPT ![cur[t]] = "Released"]
        /\ pc[t] = "returning"
    BY <1>6 DEF ReleaseReturn, PcOK
  <2>2. \A s \in Idx \ {cur[t]} : Kept(s)
    BY <2>1 DEF Kept, Closers
  <2>3. t \in Closers(cur[t])'
    BY <2>1 DEF Closers
  <2>4. Kept(cur[t])
    BY <2>1, <2>3 DEF Kept, Closers
  <2>5. QED
    BY <2>2, <2>4, KeptSuffices
<1>7. ASSUME NEW t \in Threads, CloseCleanup(t) PROVE NeverWedged'
  <2>1. \A s \in Idx : Kept(s)
    BY <1>7 DEF CloseCleanup, cleanup, Kept, Closers
  <2>2. QED
    BY <2>1, KeptSuffices
<1>8. ASSUME NEW t \in Workers, Worker(t) PROVE NeverWedged'
  <2>1. ASSUME NEW S, Collect(t, S) PROVE NeverWedged'
    BY <2>1, Untouched DEF Collect
  <2>2. CASE LoginAdd(t)
    <3>1. /\ pc[t] = "idle" /\ UNCHANGED life_state
          /\ \A u \in Threads \ {t} : pc'[u] = pc[u] /\ cur'[u] = cur[u]
      BY <2>2 DEF LoginAdd
    <3>2. QED
      BY <3>1, Untouched
  <2>3. CASE LoginRegister(t)
    BY <2>3, Untouched DEF LoginRegister
  <2>4. QED
    BY <1>8, <2>1, <2>2, <2>3 DEF Worker, KeepaliveCheck, CleanupInactive, HandlerClose
<1>9. CASE AcceptLoop
  <2>1. CASE Accept
    <3>1. /\ pc[Acceptor] = "accept" /\ UNCHANGED life_state
          /\ \A u \in Threads \ {Acceptor} : pc'[u] = pc[u] /\ cur'[u] = cur[u]
      BY <2>1 DEF Accept
    <3>2. QED
      BY <3>1, Untouched
  <2>2. CASE Activate
    <3>1. \A s \in Idx : Kept(s)
      BY <2>2 DEF Activate, Kept, Closers
    <3>2. QED
      BY <3>1, KeptSuffices
  <2>3. CASE AcquireCleanup
    <3>1. \A s \in Idx : Kept(s)
      BY <2>3 DEF AcquireCleanup, cleanup, Kept, Closers
    <3>2. QED
      BY <3>1, KeptSuffices
  <2>4. CASE AddAccepted
    BY <2>4, Untouched DEF AddAccepted
  <2>5. CASE Reject
    BY <2>5, Untouched DEF Reject
  <2>6. CASE CleanupUnauth
    <3>1. /\ pc[Acceptor] = "sweep" /\ UNCHANGED <<life_state, cur>>
          /\ \A u \in Threads \ {Acceptor} : pc'[u] = pc[u]
      BY <2>6 DEF CleanupUnauth
    <3>2. QED
      BY <3>1, Untouched
  <2>7. QED
    BY <1>9, <2>1, <2>2, <2>3, <2>4, <2>5, <2>6 DEF AcceptLoop
<1>10. CASE RequestLogin
  BY <1>10 DEF RequestLogin, NeverWedged, Closers, try_close
<1>11. CASE UNCHANGED vars
  BY <1>11 DEF vars, NeverWedged, Closers, try_close
<1>12. QED
  BY <1>1, <1>2, <1>3, <1>4, <1>5, <1>6, <1>7, <1>8, <1>9, <1>10, <1>11 DEF Next, CloseSession

\* However many stale closes hit a recycled session, try_close() can succeed
\* again once the threads inside close_session() are done.
THEOREM AlwaysClosable == Spec => []NeverWedged
<1>1. Init => NeverWedged
  BY DEF Init, NeverWedged, try_close
<1>2. IInv /\ NeverWedged /\ [Next]_vars => NeverWedged'
  BY WedgeStep
<1>3. QED
  BY <1>1, <1>2, Inductive, PTL DEF Spec

-----------------------------------------------------------------------------
(* SingleOwner.                                                            *)

\* Indices the pool has not grown to yet are unused.
BoundOK == \A s \in Idx : s >= pool_size => session_id[s] = None /\ s \notin Range(reusable)

\* A step that moves no session between owners.
LEMMA OwnersUnchanged ==
  ASSUME SingleOwner, ~late, UNCHANGED <<pool_size, reusable, bucket>>, Accepting' = Accepting,
         \A t \in Threads : /\ pc'[t] \in Removing <=> pc[t] \in Removing
                            /\ pc[t] \in Removing => removed'[t] = removed[t]
  PROVE  SingleOwner'
<1>1. Releasing' = Releasing
  BY DEF Releasing
<1>2. Managed' = Managed /\ Range(reusable)' = Range(reusable)
  BY DEF Managed, Range
<1>3. QED
  BY <1>1, <1>2 DEF SingleOwner

\* The free indices the constructor queues.
LEMMA InitRange ==
  ASSUME Init PROVE Range(reusable) = 0 .. PoolSize - 1
<1>1. /\ DOMAIN reusable = 1 .. PoolSize
      /\ \A i \in DOMAIN reusable : reusable[i] = i - 1
  BY DEF Init
<1>2. \A s \in 0 .. PoolSize - 1 : s + 1 \in DOMAIN reusable /\ reusable[s + 1] = s
  BY <1>1
<1>3. QED
  BY <1>1, <1>2 DEF Range

\* Head and tail of the free list.
LEMMA PopRange ==
  ASSUME PoolType, FreeListSound, reusable # <<>>, reusable' = Tail(reusable)
  PROVE  /\ Range(reusable') = Range(reusable) \ {Head(reusable)}
         /\ Head(reusable) \in Range(reusable)
<1>1. /\ DOMAIN reusable = 1 .. Len(reusable) /\ Len(reusable) \in Nat \ {0}
      /\ DOMAIN reusable' = 1 .. Len(reusable) - 1
      /\ \A i \in DOMAIN reusable' : reusable'[i] = reusable[i + 1]
      /\ Head(reusable) = reusable[1]
  BY DEF PoolType
<1>2. \A i, j \in DOMAIN reusable : reusable[i] = reusable[j] => i = j
  BY DEF FreeListSound
<1>3. \A i \in DOMAIN reusable' : reusable'[i] \in Range(reusable) \ {Head(reusable)}
  BY <1>1, <1>2 DEF Range
<1>4. ASSUME NEW s \in Range(reusable) \ {Head(reusable)} PROVE s \in Range(reusable')
  <2>1. PICK i \in DOMAIN reusable : reusable[i] = s
    BY DEF Range
  <2>2. i - 1 \in DOMAIN reusable' /\ reusable'[i - 1] = s
    BY <1>1, <2>1
  <2>3. QED
    BY <2>2 DEF Range
<1>5. QED
  BY <1>1, <1>3, <1>4 DEF Range

\* What a queue holds after an index was appended.
LEMMA PushRange ==
  ASSUME PoolType, NEW idx \in Idx, reusable' = Append(reusable, idx)
  PROVE  Range(reusable') = Range(reusable) \cup {idx}
<1>1. /\ DOMAIN reusable = 1 .. Len(reusable) /\ Len(reusable) \in Nat
      /\ DOMAIN reusable' = 1 .. Len(reusable) + 1
      /\ \A i \in DOMAIN reusable : reusable'[i] = reusable[i]
      /\ reusable'[Len(reusable) + 1] = idx
  BY DEF PoolType
<1>2. QED
  BY <1>1 DEF Range

\* Every step keeps the bound that ties the free list to the pool.
LEMMA BoundStep ==
  ASSUME IInv, BoundOK, [Next]_vars PROVE BoundOK'
<1> USE DEF IInv, Types
<1>1. CASE Accept
  <2>1. PICK idx \in Idx : Grant(idx) /\ reset(idx, next_id)
    BY <1>1 DEF Accept
  <2>2. CASE reusable = <<>>
    <3>1. reusable' = reusable /\ idx = pool_size /\ pool_size' = pool_size + 1
      BY <2>1, <2>2 DEF Grant
    <3>2. QED
      BY <2>1, <3>1 DEF BoundOK, reset, SessType, PoolType
  <2>3. CASE reusable # <<>>
    <3>1. idx = Head(reusable) /\ reusable' = Tail(reusable) /\ pool_size' = pool_size
      BY <2>1, <2>3 DEF Grant
    <3>2. idx \in Range(reusable) /\ Range(reusable') \subseteq Range(reusable)
      BY <2>3, <3>1, PopRange DEF FreeOK
    <3>3. QED
      BY <2>1, <3>1, <3>2 DEF BoundOK, reset, SessType, PoolType
  <2>4. QED
    BY <2>2, <2>3
<1>2. ASSUME NEW t \in Threads, ReleaseReturn(t) PROVE BoundOK'
  <2>1. /\ removed[t] \in Idx /\ session_id[removed[t]] \in Ids
        /\ reusable' = Append(reusable, removed[t]) /\ UNCHANGED <<pool_size, session_id>>
    BY <1>2 DEF ReleaseReturn, ReturnIndex, PcOK
  <2>2. Range(reusable') = Range(reusable) \cup {removed[t]}
    BY <2>1, PushRange
  <2>3. QED
    BY <2>1, <2>2 DEF BoundOK
<1>3. ASSUME UNCHANGED <<pool_size, reusable, session_id>> PROVE BoundOK'
  BY <1>3 DEF BoundOK, Range
<1>4. CASE AcceptLoop /\ ~Accept
  BY <1>3, <1>4 DEF AcceptLoop, Reject, Activate, AcquireCleanup, AddAccepted, CleanupUnauth
<1>5. ASSUME NEW t \in Threads, CloseSession(t), ~ReleaseReturn(t) PROVE BoundOK'
  BY <1>3, <1>5 DEF CloseSession, CloseBegin, CloseSocket, FinalizeClose, RemoveSession,
     ReleaseCheck, CloseCleanup
<1>6. ASSUME NEW t \in Workers, Worker(t) PROVE BoundOK'
  BY <1>3, <1>6 DEF Worker, KeepaliveCheck, CleanupInactive, HandlerClose, Collect, LoginAdd,
     LoginRegister
<1>7. CASE RequestLogin \/ UNCHANGED vars
  BY <1>3, <1>7 DEF RequestLogin, vars
<1>8. QED
  BY <1>1, <1>2, <1>4, <1>5, <1>6, <1>7 DEF Next

\* Every step leaves each session with one owner.
LEMMA OwnerStep ==
  ASSUME IInv, BoundOK, SingleOwner, [Next]_vars PROVE SingleOwner'
<1> USE DEF IInv, Types
<1>1. CASE late'
  BY <1>1 DEF SingleOwner
<1> SUFFICES ASSUME ~late' PROVE SingleOwner'
  BY <1>1
<1>2. ~late
  BY DEF Next, AcceptLoop, Accept, Reject, Activate, AcquireCleanup, AddAccepted, CleanupUnauth,
     RequestLogin, CloseSession, CloseBegin, CloseSocket, FinalizeClose, RemoveSession,
     ReleaseCheck, ReleaseReturn, CloseCleanup, Worker, KeepaliveCheck, CleanupInactive,
     HandlerClose, Collect, LoginAdd, LoginRegister, vars
<1>3. CASE Accept
  <2>1. PICK idx \in Idx : Grant(idx) /\ cur' = [cur EXCEPT ![Acceptor] = idx]
    BY <1>3 DEF Accept
  <2>2. /\ pc[Acceptor] = "accept" /\ pc' = [pc EXCEPT ![Acceptor] = "activate"]
        /\ UNCHANGED <<bucket, removed, late>>
    BY <1>3 DEF Accept
  <2>3. Accepting = {} /\ Accepting' = {idx}
    BY <2>1, <2>2 DEF Accepting, ThrType
  <2>4. Managed' = Managed /\ Releasing' = Releasing
    BY <2>2 DEF Managed, Releasing, Range, ThrType
  <2>5. /\ 0 .. pool_size' - 1 = (0 .. pool_size - 1) \cup {idx}
        /\ Range(reusable') = Range(reusable) \ {idx}
        /\ idx \notin Managed \cup Releasing
    <3>1. CASE reusable = <<>>
      <4>1. reusable' = reusable /\ idx = pool_size /\ pool_size' = pool_size + 1
        BY <2>1, <3>1 DEF Grant
      <4>2. session_id[idx] = None
        BY <4>1 DEF BoundOK, PoolType
      <4>3. idx \notin Managed
        BY <4>2, ManagedHasId
      <4>4. idx \notin Releasing
        BY <4>2 DEF Releasing, PcOK
      <4>5. Range(reusable) = {}
        BY <3>1 DEF Range
      <4>6. QED
        BY <4>1, <4>3, <4>4, <4>5 DEF PoolType, Range
    <3>2. CASE reusable # <<>>
      <4>1. idx = Head(reusable) /\ reusable' = Tail(reusable) /\ pool_size' = pool_size
        BY <2>1, <3>2 DEF Grant
      <4>2. Range(reusable') = Range(reusable) \ {idx} /\ idx \in Range(reusable)
        BY <3>2, <4>1, PopRange DEF FreeOK
      <4>3. QED
        BY <1>2, <4>1, <4>2 DEF SingleOwner
    <3>3. QED
      BY <3>1, <3>2
  <2>6. \A t, u \in Threads :
          pc'[t] \in Removing /\ pc'[u] \in Removing /\ removed'[t] = removed'[u] => t = u
    BY <1>2, <2>2 DEF SingleOwner, ThrType
  <2>7. QED
    BY <1>2, <2>2, <2>3, <2>4, <2>5, <2>6 DEF SingleOwner
<1>4. CASE AddAccepted
  <2> DEFINE s == cur[Acceptor]
  <2> DEFINE id == session_id[s]
  <2>1. /\ pc[Acceptor] = "add" /\ pc' = [pc EXCEPT ![Acceptor] = "sweep"]
        /\ bucket' = [bucket EXCEPT ![id] = s]
        /\ UNCHANGED <<pool_size, reusable, removed, late>>
    BY <1>4 DEF AddAccepted, add_session
  <2>2. s \in Idx /\ id \in Ids
    BY <2>1 DEF PcOK
  <2>2a. bucket[id] \in {None, s}
    BY <2>2 DEF SessType, IdsOK
  <2>3. Accepting = {s} /\ Accepting' = {}
    BY <2>1 DEF Accepting, ThrType
  <2> HIDE DEF s, id
  <2>4. s \notin Managed
    BY <1>2, <2>3 DEF SingleOwner
  <2>5. bucket[id] = None /\ \A i \in Ids : bucket[i] # s
    BY <2>2, <2>2a, <2>4 DEF Managed, Range, MgrType
  <2>6. Managed' = Managed \cup {s}
    BY <2>1, <2>2, <2>5 DEF Managed, Range, MgrType
  <2>7. Releasing' = Releasing /\ Range(reusable') = Range(reusable)
    BY <2>1 DEF Releasing, ThrType
  <2>8. \A i, j \in Ids : bucket'[i] = bucket'[j] /\ bucket'[i] # None => i = j
    BY <1>2, <2>1, <2>2, <2>5 DEF SingleOwner, MgrType
  <2>9. \A t, u \in Threads :
          pc'[t] \in Removing /\ pc'[u] \in Removing /\ removed'[t] = removed'[u] => t = u
    BY <1>2, <2>1 DEF SingleOwner, ThrType
  <2>10. QED
    BY <1>2, <2>1, <2>3, <2>4, <2>6, <2>7, <2>8, <2>9 DEF SingleOwner
<1>5. ASSUME NEW t \in Threads, RemoveSession(t) PROVE SingleOwner'
  <2> DEFINE s == cur[t]
  <2> DEFINE id == session_id[s]
  <2>1. /\ pc[t] = "remove"
        /\ removed' = [removed EXCEPT ![t] = bucket[id]]
        /\ bucket' = [bucket EXCEPT ![id] = None]
        /\ pc' = [pc EXCEPT ![t] = IF bucket[id] # None THEN "release" ELSE "cleanup"]
        /\ UNCHANGED <<pool_size, reusable, cur, late>>
    BY <1>5 DEF RemoveSession, Take, Found
  <2>2. id \in Ids
    BY <2>1 DEF PcOK
  <2> HIDE DEF s, id
  <2>3. Accepting' = Accepting
    BY <2>1 DEF Accepting, ThrType
  <2>4. CASE bucket[id] = None
    <3>1. bucket' = bucket /\ \A u \in Threads : pc'[u] \in Removing <=> pc[u] \in Removing
      BY <2>1, <2>2, <2>4 DEF MgrType, ThrType
    <3>2. QED
      BY <1>2, <2>1, <2>3, <3>1, OwnersUnchanged DEF ThrType
  <2>5. CASE bucket[id] # None
    <3> DEFINE r == bucket[id]
    <3>1. r \in Managed /\ r \in Idx
      BY <2>2, <2>5 DEF Managed, Range, MgrType
    <3>2. Managed' = Managed \ {r}
      <4>1. \A i \in Ids \ {id} : bucket[i] # r
        BY <1>2, <2>2, <2>5 DEF SingleOwner
      <4>2. QED
        BY <2>1, <2>2, <2>5, <4>1 DEF Managed, Range, MgrType
    <3>3. Releasing' = Releasing \cup {r}
      BY <2>1, <2>5 DEF Releasing, ThrType
    <3>4. r \notin Releasing
      BY <1>2, <3>1 DEF SingleOwner
    <3>5. \A u \in Threads : pc[u] \in Removing => removed[u] # r
      BY <3>4 DEF Releasing
    <3>6. \A u, v \in Threads :
            pc'[u] \in Removing /\ pc'[v] \in Removing /\ removed'[u] = removed'[v] => u = v
      BY <1>2, <2>1, <3>5 DEF SingleOwner, ThrType
    <3>7. \A i, j \in Ids : bucket'[i] = bucket'[j] /\ bucket'[i] # None => i = j
      BY <1>2, <2>1, <2>2 DEF SingleOwner, MgrType
    <3>8. UNCHANGED pool_size /\ Range(reusable') = Range(reusable)
      BY <2>1
    <3> HIDE DEF r
    <3>9. QED
      BY <1>2, <2>3, <3>1, <3>2, <3>3, <3>4, <3>6, <3>7, <3>8 DEF SingleOwner
  <2>6. QED
    BY <2>4, <2>5
<1>6. ASSUME NEW t \in Threads, ReleaseCheck(t) PROVE SingleOwner'
  <2>1. removed[t] \in Releasing
    BY <1>6 DEF ReleaseCheck, Releasing
  <2>2. removed[t] \notin available
    BY <1>2, <2>1 DEF SingleOwner, FreeOK, FreeListSound
  <2>3. /\ pc' = [pc EXCEPT ![t] = "returning"] /\ pc[t] = "release"
        /\ UNCHANGED <<pool_size, reusable, bucket, late, cur, removed>>
    BY <1>6, <2>2 DEF ReleaseCheck, MayReturn
  <2>4. Accepting' = Accepting
    BY <2>3 DEF Accepting, ThrType
  <2>5. QED
    BY <1>2, <2>3, <2>4, OwnersUnchanged DEF ThrType
<1>7. ASSUME NEW t \in Threads, ReleaseReturn(t) PROVE SingleOwner'
  <2> DEFINE r == removed[t]
  <2>1. /\ pc[t] = "returning" /\ pc' = [pc EXCEPT ![t] = "cleanup"]
        /\ reusable' = Append(reusable, r)
        /\ removed' = [removed EXCEPT ![t] = None]
        /\ UNCHANGED <<pool_size, bucket, cur, late>>
    BY <1>7 DEF ReleaseReturn, ReturnIndex
  <2>2. r \in Idx /\ r \in Releasing
    BY <2>1 DEF PcOK, Releasing
  <2>3. Range(reusable') = Range(reusable) \cup {r}
    BY <2>1, <2>2, PushRange
  <2>4. Accepting' = Accepting /\ Managed' = Managed
    BY <2>1 DEF Accepting, Managed, Range, ThrType
  <2>5. \A u \in Threads \ {t} : pc[u] \in Removing => removed[u] # r
    BY <1>2, <2>1 DEF SingleOwner
  <2>6. Releasing' = Releasing \ {r}
    BY <2>1, <2>5 DEF Releasing, ThrType
  <2>7. \A u, v \in Threads :
          pc'[u] \in Removing /\ pc'[v] \in Removing /\ removed'[u] = removed'[v] => u = v
    BY <1>2, <2>1 DEF SingleOwner, ThrType
  <2> HIDE DEF r
  <2>8. QED
    BY <1>2, <2>1, <2>2, <2>3, <2>4, <2>6, <2>7 DEF SingleOwner
<1>8. ASSUME NEW t \in Workers, LoginAdd(t) PROVE SingleOwner'
  <2>1. PICK s \in logins : bucket' = [bucket EXCEPT ![session_id[s]] = s]
                            /\ bucket[session_id[s]] = s
    BY <1>8 DEF LoginAdd, add_session
  <2>2. bucket' = bucket
    BY <2>1 DEF MgrType
  <2>3. /\ pc[t] = "idle" /\ pc' = [pc EXCEPT ![t] = "login"]
        /\ UNCHANGED <<pool_size, reusable, removed>> /\ cur'[Acceptor] = cur[Acceptor]
    BY <1>8 DEF LoginAdd, ThrType
  <2>4. Accepting' = Accepting
    BY <2>3 DEF Accepting, ThrType
  <2>5. QED
    BY <1>2, <2>2, <2>3, <2>4, OwnersUnchanged DEF ThrType
<1>9. ASSUME UNCHANGED <<pool_size, reusable, bucket, removed>>, NEW t \in Threads,
             NEW p \in PCs \ Removing, pc' = [pc EXCEPT ![t] = p], pc[t] \notin Removing,
             t = Acceptor => /\ cur'[t] = cur[t] \/ pc[t] \notin Holding \cup {"add"}
                             /\ p \in Holding \cup {"add"} <=> pc[t] \in Holding \cup {"add"},
             \A u \in Threads \ {t} : cur'[u] = cur[u]
      PROVE  SingleOwner'
  <2>1. Accepting' = Accepting
    BY <1>9 DEF Accepting, ThrType
  <2>2. QED
    BY <1>2, <1>9, <2>1, OwnersUnchanged DEF ThrType
<1>10. CASE Activate \/ AcquireCleanup
  BY <1>9, <1>10 DEF Activate, AcquireCleanup
<1>11. CASE CleanupUnauth
  BY <1>9, <1>11 DEF CleanupUnauth
<1>12. CASE Reject \/ RequestLogin \/ UNCHANGED vars
  <2>1. UNCHANGED <<pool_size, reusable, bucket, pc, cur, removed>>
    BY <1>12 DEF Reject, RequestLogin, vars
  <2>2. Accepting' = Accepting
    BY <2>1 DEF Accepting
  <2>3. QED
    BY <1>2, <2>1, <2>2, OwnersUnchanged
<1>13. ASSUME NEW t \in Workers, NEW S, Collect(t, S) PROVE SingleOwner'
  BY <1>9, <1>13 DEF Collect
<1>14. ASSUME NEW t \in Workers, LoginRegister(t) PROVE SingleOwner'
  <2>1. /\ pc[t] = "login" /\ pc' = [pc EXCEPT ![t] = "idle"] /\ t # Acceptor
        /\ UNCHANGED <<pool_size, reusable, bucket, removed>>
        /\ \A u \in Threads \ {t} : cur'[u] = cur[u]
    BY <1>14 DEF LoginRegister, ThrType
  <2>2. QED
    BY <1>9, <2>1
<1>15. ASSUME NEW t \in Threads, CloseSocket(t) \/ FinalizeClose(t) PROVE SingleOwner'
  BY <1>9, <1>15 DEF CloseSocket, FinalizeClose
<1>16. ASSUME NEW t \in Threads, CloseCleanup(t) PROVE SingleOwner'
  <2>1. /\ pc[t] = "cleanup" /\ pc' = [pc EXCEPT ![t] = Return(t)]
        /\ UNCHANGED <<pool_size, reusable, bucket, removed>>
        /\ \A u \in Threads \ {t} : cur'[u] = cur[u]
    BY <1>16 DEF CloseCleanup, ThrType
  <2>2. Return(t) \in {"next", "idle", "accept"}
    BY DEF Return
  <2>3. QED
    BY <1>9, <2>1, <2>2
<1>17. ASSUME NEW t \in Threads, CloseBegin(t) PROVE SingleOwner'
  <2>1. /\ pc[t] = "next" /\ UNCHANGED <<pool_size, reusable, bucket, removed>>
        /\ \A u \in Threads \ {t} : cur'[u] = cur[u]
        /\ \/ pc' = [pc EXCEPT ![t] = "closing"]
           \/ pc' = [pc EXCEPT ![t] = Return(t)']
    BY <1>17 DEF CloseBegin, ThrType
  <2>2. Return(t)' \in {"next", "idle", "accept"}
    BY DEF Return
  <2>3. QED
    BY <1>9, <2>1, <2>2
<1>18. QED
  BY <1>3, <1>4, <1>5, <1>6, <1>7, <1>8, <1>10, <1>11, <1>12, <1>13, <1>14, <1>15, <1>16, <1>17
  DEF Next, AcceptLoop, CloseSession, Worker, KeepaliveCheck, CleanupInactive, HandlerClose

\* Until a login reply reaches a session that is no longer managed, every
\* session of the pool has exactly one owner.
THEOREM OwnershipCorrect == Spec => []SingleOwner
<1>1. Init => BoundOK /\ SingleOwner
  <2> SUFFICES ASSUME Init PROVE BoundOK /\ SingleOwner
    OBVIOUS
  <2>2. Range(reusable) = 0 .. PoolSize - 1
    BY InitRange
  <2>3. Accepting = {} /\ Managed = {} /\ Releasing = {}
    BY DEF Init, Accepting, Managed, Releasing, Range
  <2>4. BoundOK
    BY <2>2 DEF Init, BoundOK
  <2>5. pool_size = PoolSize /\ bucket = [id \in Ids |-> None]
        /\ \A t \in Threads : pc[t] \notin Removing
    BY DEF Init
  <2>6. SingleOwner
    BY <2>2, <2>3, <2>5 DEF SingleOwner
  <2>7. QED
    BY <2>4, <2>6
<1>2. IInv /\ BoundOK /\ SingleOwner /\ [Next]_vars => BoundOK' /\ SingleOwner'
  BY BoundStep, OwnerStep
<1>3. QED
  BY <1>1, <1>2, Inductive, PTL DEF Spec

-----------------------------------------------------------------------------
(* SessionPool implements SessionPoolSpec.                                 *)

\* A step that leaves list, size and grants alone is a stutter of the pool.
LEMMA PoolStutter ==
  ASSUME UNCHANGED <<pool_size, reusable, granted>> PROVE UNCHANGED Pool!vars
  BY DEF Pool!vars, Range

\* acquire() takes the head of the free list or makes a new session.
LEMMA AcquireRefines ==
  ASSUME IInv, Accept PROVE Pool!Next
<1> USE DEF IInv, Types
<1>1. PICK idx \in Idx : Grant(idx) /\ granted' = [granted EXCEPT ![next_id] = idx]
  BY DEF Accept
<1>2. next_id \in Ids /\ granted[next_id] = None
  BY DEF Accept, MgrType, IdsOK
<1>3. CASE reusable = <<>>
  <2>1. /\ reusable' = reusable /\ idx = pool_size
        /\ pool_size' = pool_size + 1 /\ pool_size < MaxSize
    BY <1>1, <1>3 DEF Grant
  <2>2. Range(reusable) = {}
    BY <1>3 DEF Range
  <2>3. Range(reusable)' = Range(reusable)
    BY <2>1 DEF Range
  <2>4. Pool!Grow(next_id)
    BY <1>1, <1>2, <2>1, <2>2, <2>3 DEF Pool!Grow
  <2>5. QED
    BY <1>2, <2>4 DEF Pool!Next
<1>4. CASE reusable # <<>>
  <2>1. idx = Head(reusable) /\ reusable' = Tail(reusable) /\ pool_size' = pool_size
    BY <1>1, <1>4 DEF Grant
  <2>2. Range(reusable') = Range(reusable) \ {idx} /\ idx \in Range(reusable)
    BY <1>4, <2>1, PopRange DEF FreeOK
  <2>3. Range(reusable)' = Range(reusable')
    BY DEF Range
  <2>4. Pool!Take(next_id, idx)
    BY <1>1, <1>2, <2>1, <2>2, <2>3 DEF Pool!Take
  <2>5. QED
    BY <1>2, <2>2, <2>4 DEF Pool!Next
<1>5. QED
  BY <1>3, <1>4

\* release() takes back a session that was granted and is not free: a queued
\* index without the mark of the duplicate check was never granted.
LEMMA ReleaseRefines ==
  ASSUME IInv, BoundOK, NEW t \in Threads, ReleaseReturn(t) PROVE Pool!Next
<1> USE DEF IInv, Types
<1> DEFINE r == removed[t]
<1>1. /\ pc[t] = "returning" /\ reusable' = Append(reusable, r)
      /\ UNCHANGED <<pool_size, granted>>
  BY DEF ReleaseReturn, ReturnIndex
<1>2. r \in Idx /\ session_id[r] \in Ids /\ r \notin available
  BY <1>1 DEF PcOK, FreeOK
<1>3. granted[session_id[r]] = r
  BY <1>2 DEF IdsOK
<1>4. r \notin Range(reusable)
  BY <1>2 DEF FreeOK, FreeListSound
<1>5. r \in 0 .. pool_size - 1
  BY <1>2 DEF BoundOK, PoolType
<1>6. Range(reusable') = Range(reusable) \cup {r}
  BY <1>1, <1>2, PushRange
<1>7. Range(reusable)' = Range(reusable')
  BY DEF Range
<1> HIDE DEF r
<1>8. Pool!Give(r)
  BY <1>1, <1>2, <1>3, <1>4, <1>5, <1>6, <1>7 DEF Pool!Give
<1>9. QED
  BY <1>5, <1>8 DEF Pool!Next

\* Every step of the server is a step of the abstract pool or leaves it alone.
LEMMA PoolStep ==
  ASSUME IInv, BoundOK, [Next]_vars PROVE [Pool!Next]_(Pool!vars)
<1>1. CASE Accept
  BY <1>1, AcquireRefines
<1>2. ASSUME NEW t \in Threads, ReleaseReturn(t) PROVE Pool!Next
  BY <1>2, ReleaseRefines
<1>3. CASE AcceptLoop /\ ~Accept
  BY <1>3, PoolStutter
  DEF AcceptLoop, Reject, Activate, AcquireCleanup, AddAccepted, CleanupUnauth
<1>4. ASSUME NEW t \in Threads, CloseSession(t), ~ReleaseReturn(t) PROVE UNCHANGED Pool!vars
  BY <1>4, PoolStutter DEF CloseSession, CloseBegin, CloseSocket, FinalizeClose, RemoveSession,
     ReleaseCheck, CloseCleanup
<1>5. ASSUME NEW t \in Workers, Worker(t) PROVE UNCHANGED Pool!vars
  BY <1>5, PoolStutter DEF Worker, KeepaliveCheck, CleanupInactive, HandlerClose, Collect,
     LoginAdd, LoginRegister
<1>6. CASE RequestLogin \/ UNCHANGED vars
  BY <1>6, PoolStutter DEF RequestLogin, vars
<1>7. QED
  BY <1>1, <1>2, <1>3, <1>4, <1>5, <1>6 DEF Next

\* acquire() and release() implement the abstract pool, whatever stale closes
\* and late login replies the threads mix in.
THEOREM PoolImplements == Spec => ImplementsPool
<1>1. Init => BoundOK /\ Pool!Init
  <2> SUFFICES ASSUME Init PROVE BoundOK /\ Pool!Init
    OBVIOUS
  <2>1. Range(reusable) = 0 .. PoolSize - 1
    BY InitRange
  <2>2. BoundOK
    BY <2>1 DEF Init, BoundOK
  <2>3. Pool!Init
    BY <2>1 DEF Init, Pool!Init
  <2>4. QED
    BY <2>2, <2>3
<1>2. IInv /\ BoundOK /\ [Next]_vars => BoundOK' /\ [Pool!Next]_(Pool!vars)
  BY BoundStep, PoolStep
<1>3. QED
  BY <1>1, <1>2, Inductive, PTL DEF Spec, ImplementsPool, Pool!Spec
===============================================================================
