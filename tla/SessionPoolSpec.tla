---------------------------- MODULE SessionPoolSpec ----------------------------
(***************************************************************************)
(* What SessionPool promises its users, without threads, locks, queue      *)
(* order, duplicate check or life states: a connection is granted at most  *)
(* one session, once; a free session is preferred to a new one; the pool   *)
(* grows by one and only up to its maximum; a session is granted only      *)
(* while it is free and taken back only while it is out.                   *)
(***************************************************************************)
EXTENDS Integers

CONSTANTS
  Connections,   \* those that may ask for a session
  None,          \* no session
  PoolSize,      \* sessions created in advance
  MaxSize        \* sessions at most

VARIABLES
  size,          \* sessions there are: 0 .. size - 1
  free,          \* those nobody has
  grant          \* the session a connection was given

vars == <<size, free, grant>>

Init ==
  /\ size = PoolSize
  /\ free = 0 .. PoolSize - 1
  /\ grant = [c \in Connections |-> None]

\* A connection is given a free session.
Take(c, i) ==
  /\ grant[c] = None /\ i \in free
  /\ grant' = [grant EXCEPT ![c] = i]
  /\ free' = free \ {i}
  /\ UNCHANGED size

\* None is free: a connection is given a new one, if there may be more.
Grow(c) ==
  /\ grant[c] = None /\ free = {} /\ size < MaxSize
  /\ grant' = [grant EXCEPT ![c] = size]
  /\ size' = size + 1
  /\ UNCHANGED free

\* A session that somebody was given comes back.
Give(i) ==
  /\ i \in 0 .. size - 1 /\ i \notin free
  /\ \E c \in Connections : grant[c] = i
  /\ free' = free \cup {i}
  /\ UNCHANGED <<size, grant>>

Next ==
  \/ \E c \in Connections : Grow(c) \/ \E i \in free : Take(c, i)
  \/ \E i \in 0 .. size - 1 : Give(i)

Spec == Init /\ [][Next]_vars
================================================================================
