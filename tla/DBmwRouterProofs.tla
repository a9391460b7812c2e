---------------------------- MODULE DBmwRouterProofs ----------------------------
(***************************************************************************)
(* The request table of DBmwRouter is correct for every set of requests,   *)
(* every number of retries and any number of exceptions: the invariants of *)
(* DBmwRouter hold and it implements RequestReply.                         *)
(***************************************************************************)
EXTENDS DBmwRouter, FiniteSetTheorems, TLAPS

USE RouterAssumption DEF Modes, Phases

\* An unanswered request has told its caller nothing, and one that is not yet
\* registered has nothing under way.
Quiet ==
  \A r \in Requests :
    /\ phase[r] \in {"new", "pending"} => answers[r] = 0
    /\ phase[r] = "new" => /\ retries[r] = 0 /\ sends[r] = 0
                           /\ backoff[r] = 0 /\ resending[r] = 0

IInv == TypeOK /\ Watched /\ SendBudget /\ CountersBalance /\ Quiet

-----------------------------------------------------------------------------
(* The counters.                                                           *)

\* No step but the two that settle a request changes Done or the counters of
\* results.
LEMMA DoneKept ==
  ASSUME CountersBalance,
         m_ok' = m_ok, m_fail' = m_fail, m_to' = m_to,
         \A r \in Requests : phase'[r] = "done" <=> phase[r] = "done"
  PROVE  CountersBalance'
<1>1. Done' = Done
  BY DEF Done
<1> QED
  BY <1>1 DEF CountersBalance

\* Settling one pending request adds one to Done.
LEMMA DoneGrows ==
  ASSUME NEW r \in Requests, phase \in [Requests -> Phases], phase[r] = "pending",
         phase' = [phase EXCEPT ![r] = "done"]
  PROVE  Cardinality(Done') = Cardinality(Done) + 1
<1>1. Done' = Done \cup {r} /\ r \notin Done
  BY DEF Done
<1>2. IsFiniteSet(Done)
  BY FS_Subset DEF Done
<1> QED
  BY <1>1, <1>2, FS_AddElement

\* The cardinality of Done is a natural number.
LEMMA DoneCounted == Cardinality(Done) \in Nat
<1>1. IsFiniteSet(Done)
  BY FS_Subset DEF Done
<1> QED
  BY <1>1, FS_CardinalityType

-----------------------------------------------------------------------------
(* Sending.                                                                *)

\* One call of send_now_locked is one transmission now or one resend later, of
\* this request only.
LEMMA SendOnce ==
  ASSUME TypeOK, NEW r \in Requests, send_now_locked(r)
  PROVE  /\ backoff' \in [Requests -> Nat] /\ sends' \in [Requests -> Nat]
         /\ copies' \in [Requests -> Nat] /\ m_sent' \in Nat /\ throws' \in Nat
         /\ sends'[r] + backoff'[r] = sends[r] + backoff[r] + 1
         /\ \A q \in Requests \ {r} : sends'[q] = sends[q] /\ backoff'[q] = backoff[q]
<1>1. CASE Transmit(r) /\ UNCHANGED backoff
  BY <1>1 DEF TypeOK, Transmit
<1>2. CASE Throw /\ backoff' = [backoff EXCEPT ![r] = @ + 1]
  BY <1>2 DEF TypeOK, Throw
<1> QED
  BY <1>1, <1>2 DEF send_now_locked

-----------------------------------------------------------------------------
(* The invariant.                                                          *)

\* The router starts in the invariant, with an empty pending_.
LEMMA InitInv == Init => IInv
<1> SUFFICES ASSUME Init PROVE IInv
  OBVIOUS
<1>1. TypeOK
  <2>1. senders \in BOOLEAN /\ dangling \in BOOLEAN
    BY DEF Init
  <2>2. /\ phase \in [Requests -> Phases] /\ mode \in [Requests -> Modes]
        /\ retries \in [Requests -> 0 .. max_retries]
        /\ timer \in [Requests -> {"off", "armed", "fired"}]
    BY DEF Init
  <2> QED
    BY <2>1, <2>2 DEF Init, TypeOK
<1>4. Watched
  BY DEF Init, Watched
<1>5. SendBudget /\ Quiet
  BY DEF Init, SendBudget, Quiet
<1>2. Done = {}
  BY DEF Init, Done
<1>3. CountersBalance
  BY <1>2, FS_EmptySet DEF Init, CountersBalance
<1> QED
  BY <1>1, <1>3, <1>4, <1>5 DEF IInv

\* set_senders touches no request.
LEMMA SetSendersInv == IInv /\ SetSenders => IInv'
<1> SUFFICES ASSUME IInv, SetSenders PROVE IInv'
  OBVIOUS
<1> USE DEF IInv, SetSenders, tableVars, resendVars, countVars, sendVars
<1>1. TypeOK' /\ Watched' /\ SendBudget' /\ Quiet'
  BY DEF TypeOK, Watched, SendBudget, Quiet
<1>2. CountersBalance'
  BY DoneKept
<1> QED
  BY <1>1, <1>2

\* A registered request is pending, watched and within its budget.
LEMMA RegisterInv ==
  ASSUME IInv, NEW r \in Requests, NEW m \in Modes, Register(r, m)
  PROVE  IInv'
<1> USE DEF IInv, Register, countVars
<1>1. TypeOK'
  BY SendOnce DEF TypeOK
<1>2. Watched'
  BY DEF TypeOK, Watched
<1>3. SendBudget'
  <2> SUFFICES ASSUME NEW q \in Requests
               PROVE  sends'[q] + backoff'[q] + resending'[q] <= 1 + retries'[q]
    BY DEF SendBudget
  <2>1. CASE q = r
    BY <2>1, SendOnce DEF TypeOK, Quiet
  <2>2. CASE q # r
    BY <2>2, SendOnce DEF SendBudget
  <2> QED
    BY <2>1, <2>2
<1>4. Quiet'
  BY SendOnce DEF TypeOK, Quiet
<1>5. CountersBalance'
  BY DoneKept DEF TypeOK
<1> QED
  BY <1>1, <1>2, <1>3, <1>4, <1>5

\* send_request_cb registers, or refuses and counts nothing.
LEMMA RequestCbInv ==
  ASSUME IInv, NEW r \in Requests, send_request_cb(r)
  PROVE  IInv'
<1>1. CASE Register(r, "callback")
  BY <1>1, RegisterInv
<1>2. CASE /\ ~senders /\ phase[r] = "new"
           /\ phase' = [phase EXCEPT ![r] = "refused"]
           /\ mode' = [mode EXCEPT ![r] = "callback"]
           /\ answers' = [answers EXCEPT ![r] = @ + 1]
           /\ UNCHANGED <<senders, retries, timer, resendVars, countVars, sendVars, dangling>>
  <2> USE <1>2 DEF IInv, resendVars, countVars, sendVars
  <2>1. TypeOK' /\ Watched' /\ SendBudget' /\ Quiet'
    BY DEF TypeOK, Watched, SendBudget, Quiet
  <2>2. CountersBalance'
    BY DoneKept DEF TypeOK
  <2> QED
    BY <2>1, <2>2
<1> QED
  BY <1>1, <1>2 DEF send_request_cb

\* A reply settles a pending request once; a late one changes nothing.
LEMMA HandleInv ==
  ASSUME IInv, NEW r \in Requests, NEW ok \in BOOLEAN, Handle(r, ok)
  PROVE  IInv'
<1> USE DEF IInv, Handle, Find, Erase, resendVars
<1>1. TypeOK'
  BY DEF TypeOK, Count
<1>2. Watched'
  BY DEF TypeOK, Watched
<1>3. SendBudget' /\ Quiet'
  BY DEF TypeOK, SendBudget, Quiet
<1>4. CountersBalance'
  <2>1. CASE ~Find(r)
    BY <2>1, DoneKept
  <2>2. CASE Find(r)
    <3>1. Cardinality(Done') = Cardinality(Done) + 1
      BY <2>2, DoneGrows DEF TypeOK
    <3>2. m_ok' + m_fail' = m_ok + m_fail + 1 /\ m_to' <= m_fail'
      BY <2>2 DEF Count, TypeOK, CountersBalance
    <3> QED
      BY <3>1, <3>2 DEF CountersBalance
  <2> QED
    BY <2>1, <2>2
<1> QED
  BY <1>1, <1>2, <1>3, <1>4

\* A timer that runs out leaves its request watched by the queued handler.
LEMMA TimerFiresInv ==
  ASSUME IInv, NEW r \in Requests, TimerFires(r)
  PROVE  IInv'
<1> USE DEF IInv, TimerFires, resendVars, countVars, sendVars
<1>1. TypeOK' /\ Watched' /\ SendBudget' /\ Quiet'
  BY DEF TypeOK, Watched, SendBudget, Quiet
<1>2. CountersBalance'
  BY DoneKept
<1> QED
  BY <1>1, <1>2

\* The timeout handler retries within the limit, gives up, or finds nothing.
LEMMA OnTimeoutInv ==
  ASSUME IInv, NEW r \in Requests, OnTimeout(r)
  PROVE  IInv'
<1> USE DEF IInv, Find
<1>1. CASE ~Find(r)
  <2> USE <1>1 DEF OnTimeout, countVars, sendVars
  <2>1. TypeOK' /\ Watched' /\ SendBudget' /\ Quiet'
    BY DEF TypeOK, Watched, SendBudget, Quiet
  <2>2. CountersBalance'
    BY DoneKept
  <2> QED
    BY <2>1, <2>2
<1>2. CASE Find(r) /\ MayRetry(r)
  <2> USE <1>2 DEF OnTimeout, MayRetry, Rearm
  <2>5. /\ send_now_locked(r) /\ retries' = [retries EXCEPT ![r] = @ + 1]
        /\ timer' = [timer EXCEPT ![r] = "armed"] /\ m_retry' = m_retry + 1
        /\ UNCHANGED <<phase, m_ok, m_to, m_fail, answers>>
    BY ZenonT(30)
  <2>7. UNCHANGED <<senders, mode, resending, dangling>>
    OBVIOUS
  <2>8. phase[r] = "pending" /\ retries[r] < max_retries
    OBVIOUS
  <2>1. TypeOK'
    <3>1. retries' \in [Requests -> 0 .. max_retries]
      BY <2>5 DEF TypeOK
    <3>2. timer' \in [Requests -> {"off", "armed", "fired"}] /\ m_retry' \in Nat
      BY <2>5 DEF TypeOK
    <3>3. TypeOK
      OBVIOUS
    <3> HIDE <1>2 DEF OnTimeout, IInv
    <3> QED
      BY <2>5, <2>7, <3>1, <3>2, <3>3, SendOnce DEF TypeOK
  <2>2. Watched'
    BY DEF TypeOK, Watched
  <2>6. Quiet'
    <3> SUFFICES ASSUME NEW q \in Requests
                 PROVE  /\ phase'[q] \in {"new", "pending"} => answers'[q] = 0
                        /\ phase'[q] = "new" => /\ retries'[q] = 0 /\ sends'[q] = 0
                                                /\ backoff'[q] = 0 /\ resending'[q] = 0
      BY DEF Quiet
    <3>1. CASE q = r
      BY <2>5, <2>8, <3>1 DEF Quiet
    <3>2. CASE q # r
      BY <2>5, <3>2, SendOnce DEF TypeOK, Quiet
    <3> QED
      BY <3>1, <3>2
  <2>3. SendBudget'
    <3> SUFFICES ASSUME NEW q \in Requests
                 PROVE  sends'[q] + backoff'[q] + resending'[q] <= 1 + retries'[q]
      BY DEF SendBudget
    <3>1. sends[q] + backoff[q] + resending[q] <= 1 + retries[q] /\ resending' = resending
      BY DEF SendBudget
    <3>2. CASE q = r
      BY <2>5, <3>1, <3>2, SendOnce DEF TypeOK
    <3>3. CASE q # r
      BY <2>5, <3>1, <3>3, SendOnce DEF TypeOK
    <3> QED
      BY <3>2, <3>3
  <2>4. CountersBalance'
    BY DoneKept
  <2> QED
    BY <2>1, <2>2, <2>3, <2>4, <2>6
<1>3. CASE Find(r) /\ ~MayRetry(r)
  <2> USE <1>3 DEF OnTimeout, Count, sendVars
  <2>1. TypeOK'
    BY DEF TypeOK
  <2>2. Watched' /\ SendBudget' /\ Quiet'
    BY DEF TypeOK, Watched, SendBudget, Quiet
  <2>3. CountersBalance'
    <3>1. Cardinality(Done') = Cardinality(Done) + 1
      BY DoneGrows DEF TypeOK
    <3> QED
      BY <3>1, DoneCounted DEF CountersBalance, TypeOK
  <2> QED
    BY <2>1, <2>2, <2>3
<1> QED
  BY <1>1, <1>2, <1>3

\* The resend timer's lookup moves a resend from one stage to the next.
LEMMA ResendLookupInv ==
  ASSUME IInv, NEW r \in Requests, ResendLookup(r)
  PROVE  IInv'
<1> USE DEF IInv, ResendLookup, Find, tableVars, countVars, sendVars
<1>1. TypeOK' /\ Watched'
  BY DEF TypeOK, Watched
<1>2. SendBudget' /\ Quiet'
  BY DEF TypeOK, SendBudget, Quiet
<1>3. CountersBalance'
  BY DoneKept
<1> QED
  BY <1>1, <1>2, <1>3

\* A resend spends the place in the budget that schedule_retry took.
LEMMA ResendInv ==
  ASSUME IInv, NEW r \in Requests, Resend(r)
  PROVE  IInv'
<1> USE DEF IInv, Resend, Find, Transmit, Throw, tableVars, countVars, sendVars
<1>1. dangling' \in BOOLEAN
  BY DEF TypeOK
<1>2. TypeOK' /\ Watched'
  BY <1>1 DEF TypeOK, Watched
<1>3. SendBudget'
  BY DEF TypeOK, SendBudget
<1>4. Quiet'
  BY DEF TypeOK, Quiet
<1>5. CountersBalance'
  BY DoneKept
<1> QED
  BY <1>2, <1>3, <1>4, <1>5

\* The invariant depends on the router's variables only.
LEMMA StutterInv == IInv /\ UNCHANGED vars => IInv'
<1> SUFFICES ASSUME IInv, UNCHANGED vars PROVE IInv'
  OBVIOUS
<1> USE DEF IInv, vars, tableVars, resendVars, countVars, sendVars
<1>1. TypeOK' /\ Watched' /\ SendBudget' /\ Quiet'
  BY DEF TypeOK, Watched, SendBudget, Quiet
<1>2. CountersBalance'
  BY DoneKept
<1> QED
  BY <1>1, <1>2

\* Every step of the router keeps the invariant.
LEMMA NextInv == IInv /\ [Next]_vars => IInv'
<1> SUFFICES ASSUME IInv, [Next]_vars PROVE IInv'
  OBVIOUS
<1>1. CASE SetSenders
  BY <1>1, SetSendersInv
<1>2. ASSUME NEW r \in Requests, send_request(r) PROVE IInv'
  BY <1>2, RegisterInv DEF send_request
<1>3. ASSUME NEW r \in Requests, send_request_cb(r) PROVE IInv'
  BY <1>3, RequestCbInv
<1>4. ASSUME NEW r \in Requests, NEW ok \in BOOLEAN, Handle(r, ok) PROVE IInv'
  BY <1>4, HandleInv
<1>5. ASSUME NEW r \in Requests, TimerFires(r) PROVE IInv'
  BY <1>5, TimerFiresInv
<1>6. ASSUME NEW r \in Requests, OnTimeout(r) PROVE IInv'
  BY <1>6, OnTimeoutInv
<1>7. ASSUME NEW r \in Requests, ResendLookup(r) PROVE IInv'
  BY <1>7, ResendLookupInv
<1>8. ASSUME NEW r \in Requests, Resend(r) PROVE IInv'
  BY <1>8, ResendInv
<1>9. CASE UNCHANGED vars
  BY <1>9, StutterInv
<1> QED
  BY <1>1, <1>2, <1>3, <1>4, <1>5, <1>6, <1>7, <1>8, <1>9 DEF Next

\* The inductive invariant holds in every reachable state.
THEOREM RouterInductive == Spec => []IInv
BY InitInv, NextInv, PTL DEF Spec

\* Requests keep their types and never retry more than max_retries times
\* (arm_timeout_locked).
THEOREM RouterTypes == Spec => []TypeOK
<1>1. IInv => TypeOK
  BY DEF IInv
<1> QED
  BY <1>1, RouterInductive, PTL

\* No request is forgotten in pending_: its timeout is running or queued.
THEOREM RouterWatches == Spec => []Watched
<1>1. IInv => Watched
  BY DEF IInv
<1> QED
  BY <1>1, RouterInductive, PTL

\* A request is never transmitted more often than once plus its retries,
\* resends of schedule_retry included.
THEOREM RouterSendBudget == Spec => []SendBudget
<1>1. IInv => SendBudget
  BY DEF IInv
<1> QED
  BY <1>1, RouterInductive, PTL

\* m_ok_ and m_fail_ count every settled request exactly once.
THEOREM RouterCounters == Spec => []CountersBalance
<1>1. IInv => CountersBalance
  BY DEF IInv
<1> QED
  BY <1>1, RouterInductive, PTL

-----------------------------------------------------------------------------
(* The refinement.                                                         *)

\* Every step of the router is a step of RequestReply or none at all.
LEMMA StepRefines ==
  ASSUME IInv, [Next]_vars
  PROVE  [Promise!Next]_(Promise!vars)
<1> USE DEF IInv, Promise!Next, Promise!vars, Promise!Open, Promise!Refuse, Promise!Settle,
            Promise!Modes
<1>1. CASE SetSenders
  BY <1>1 DEF SetSenders, tableVars
<1>2. ASSUME NEW r \in Requests, NEW m \in Modes, Register(r, m)
      PROVE  Promise!Open(r)
  BY <1>2 DEF Register
<1>3. ASSUME NEW r \in Requests, send_request_cb(r)
      PROVE  Promise!Open(r) \/ Promise!Refuse(r)
  <2>1. CASE Register(r, "callback")
    BY <2>1, <1>2
  <2>2. CASE ~Register(r, "callback")
    <3>1. phase[r] = "new" /\ answers[r] = 0
      BY <1>3, <2>2 DEF send_request_cb, Quiet
    <3>2. answers' = [answers EXCEPT ![r] = 1]
      BY <1>3, <2>2, <3>1 DEF send_request_cb, TypeOK
    <3> QED
      BY <1>3, <2>2, <3>1, <3>2 DEF send_request_cb
  <2> QED
    BY <2>1, <2>2
<1>4. ASSUME NEW r \in Requests, NEW ok \in BOOLEAN, Handle(r, ok)
      PROVE  Promise!Settle(r) \/ UNCHANGED Promise!vars
  <2>1. CASE Find(r)
    <3>1. answers' = [answers EXCEPT ![r] = 1]
      BY <1>4, <2>1 DEF Handle, Find, TypeOK, Quiet
    <3> QED
      BY <1>4, <2>1, <3>1 DEF Handle, Find, Erase
  <2>2. CASE ~Find(r)
    BY <1>4, <2>2 DEF Handle
  <2> QED
    BY <2>1, <2>2
<1>5. ASSUME NEW r \in Requests, TimerFires(r)
      PROVE  UNCHANGED Promise!vars
  BY <1>5 DEF TimerFires
<1>6. ASSUME NEW r \in Requests, OnTimeout(r)
      PROVE  Promise!Settle(r) \/ UNCHANGED Promise!vars
  <2>1. CASE ~Find(r)
    BY <1>6, <2>1 DEF OnTimeout
  <2>2. CASE Find(r) /\ MayRetry(r)
    BY <1>6, <2>2 DEF OnTimeout
  <2>3. CASE Find(r) /\ ~MayRetry(r)
    <3>1. phase[r] = "pending" /\ phase' = [phase EXCEPT ![r] = "done"] /\ UNCHANGED mode
      BY <1>6, <2>3 DEF OnTimeout, Find
    <3>2. CASE mode[r] = "future"
      <4>1. answers' = [answers EXCEPT ![r] = 1]
        BY <1>6, <2>3, <3>1, <3>2 DEF OnTimeout, TypeOK, Quiet
      <4> QED
        BY <3>1, <4>1
    <3>3. CASE mode[r] = "callback"
      <4>1. answers' = answers
        BY <1>6, <2>3, <3>1, <3>3 DEF OnTimeout, TypeOK, Quiet
      <4> QED
        BY <3>1, <3>3, <4>1
    <3> QED
      BY <3>2, <3>3 DEF TypeOK
  <2> QED
    BY <2>1, <2>2, <2>3
<1>7. ASSUME NEW r \in Requests, ResendLookup(r) \/ Resend(r)
      PROVE  UNCHANGED Promise!vars
  BY <1>7 DEF ResendLookup, Resend, tableVars
<1>8. CASE UNCHANGED vars
  BY <1>8 DEF vars, tableVars
<1> HIDE DEF Promise!Open, Promise!Refuse, Promise!Settle, Promise!vars, IInv
<1> QED
  BY <1>1, <1>2, <1>3, <1>4, <1>5, <1>6, <1>7, <1>8 DEF Next, send_request

\* The router implements RequestReply: requests are settled once and callers
\* told at most once, for any number of requests, retries and late replies.
THEOREM RouterImplements == Spec => ImplementsRequestReply
<1>1. Init => Promise!Init
  BY DEF Init, Promise!Init
<1>2. IInv /\ [Next]_vars => [Promise!Next]_(Promise!vars)
  BY StepRefines
<1> QED
  BY <1>1, <1>2, RouterInductive, PTL DEF Spec, ImplementsRequestReply, Promise!Spec
================================================================================
