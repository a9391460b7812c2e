------------------------------ MODULE RequestReply ------------------------------
(***************************************************************************)
(* What DBmwRouter promises its callers, without timers, retries, messages *)
(* or metrics: a request is opened once, settled once, and its caller is   *)
(* told the result at most once, at the moment it is settled.  A caller    *)
(* that waits on a future is always told; one that gave callbacks is told  *)
(* of every reply, and of a timeout it may not be.                         *)
(***************************************************************************)
EXTENDS Integers

CONSTANTS Requests

Modes  == {"callback", "future"}
Phases == {"new", "pending", "done", "refused"}

VARIABLES
  phase,     \* where a request is
  mode,      \* how its caller is told
  answers    \* how often its caller was told

vars == <<phase, mode, answers>>

Init ==
  /\ phase = [r \in Requests |-> "new"]
  /\ mode = [r \in Requests |-> "future"]
  /\ answers = [r \in Requests |-> 0]

\* The request is accepted and stays open until it is settled.
Open(r) ==
  /\ phase[r] = "new"
  /\ phase' = [phase EXCEPT ![r] = "pending"]
  /\ \E m \in Modes : mode' = [mode EXCEPT ![r] = m]
  /\ UNCHANGED answers

\* The request cannot be sent at all; its caller is told at once.
Refuse(r) ==
  /\ phase[r] = "new"
  /\ phase' = [phase EXCEPT ![r] = "refused"]
  /\ mode' = [mode EXCEPT ![r] = "callback"]
  /\ answers' = [answers EXCEPT ![r] = 1]

\* The request ends, and with it everything its caller will hear.
Settle(r) ==
  /\ phase[r] = "pending"
  /\ phase' = [phase EXCEPT ![r] = "done"]
  /\ \/ answers' = [answers EXCEPT ![r] = 1]
     \/ mode[r] = "callback" /\ UNCHANGED answers
  /\ UNCHANGED mode

Next == \E r \in Requests : Open(r) \/ Refuse(r) \/ Settle(r)

Spec == Init /\ [][Next]_vars
================================================================================
