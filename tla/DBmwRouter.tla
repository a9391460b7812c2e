------------------------------- MODULE DBmwRouter -------------------------------
(***************************************************************************)
(* The request table of DBmwRouter: requests to the DB middleware, matched *)
(* with their replies by request id, with a timeout, retries and counters. *)
(*                                                                         *)
(* Every handler that runs on the router's strand is one action.  The      *)
(* resend that schedule_retry arranges after a send function threw runs on *)
(* a plain io_context timer, outside the strand: it looks the request up   *)
(* and sends it in two steps, and the strand may run in between.           *)
(*                                                                         *)
(* The network may lose, delay and reorder: a transmitted copy is answered *)
(* at most once, at any time or never, and every retry adds a copy.        *)
(***************************************************************************)
EXTENDS Integers, FiniteSets

CONSTANTS
  Requests,     \* request ids; make_req_id never repeats one
  max_retries,  \* argument of send_request and send_request_cb
  MaxThrows     \* bound of the model: exceptions of the send functions

ASSUME RouterAssumption ==
  /\ IsFiniteSet(Requests)
  /\ max_retries \in Nat
  /\ MaxThrows \in Nat

Modes  == {"callback", "future"}
Phases == {"new", "pending", "done", "refused"}

VARIABLES
  senders,    \* send_json_fn_ and send_secure_json_fn_ are set
  phase,      \* "pending": the id is in pending_
  mode,       \* Pending::use_callbacks
  retries,    \* Pending::retries
  timer,      \* Pending::timer: "off", "armed", or "fired" (handler queued)
  backoff,    \* schedule_retry timers that run
  resending,  \* resends past their pending_.find, not yet sent
  copies,     \* transmitted copies the middleware has not answered
  m_sent, m_ok, m_to, m_retry, m_fail,
  \* history
  answers,    \* how often a caller was told a result
  sends,      \* successful calls of a send function, or of an unset one
  throws,     \* exceptions so far
  dangling    \* a resend used a Pending that had been erased

tableVars  == <<phase, mode, retries, timer>>
resendVars == <<backoff, resending>>
countVars  == <<m_ok, m_to, m_retry, m_fail>>
sendVars   == <<copies, m_sent, sends, throws>>
vars == <<senders, tableVars, resendVars, countVars, sendVars, answers, dangling>>

Pending == {r \in Requests : phase[r] = "pending"}
Done    == {r \in Requests : phase[r] = "done"}

-----------------------------------------------------------------------------
Init ==
  /\ senders = FALSE
  /\ phase = [r \in Requests |-> "new"]
  /\ mode = [r \in Requests |-> "future"]
  /\ retries = [r \in Requests |-> 0]
  /\ timer = [r \in Requests |-> "off"]
  /\ backoff = [r \in Requests |-> 0]
  /\ resending = [r \in Requests |-> 0]
  /\ copies = [r \in Requests |-> 0]
  /\ m_sent = 0 /\ m_ok = 0 /\ m_to = 0 /\ m_retry = 0 /\ m_fail = 0
  /\ answers = [r \in Requests |-> 0]
  /\ sends = [r \in Requests |-> 0]
  /\ throws = 0
  /\ dangling = FALSE

\* main() injects the client's send functions after it built the router.
SetSenders ==
  /\ ~senders
  /\ senders' = TRUE
  /\ UNCHANGED <<tableVars, resendVars, countVars, sendVars, answers, dangling>>

-----------------------------------------------------------------------------
(* Sending.                                                                *)

\* A call of the send function that returns; an unset function is skipped and
\* counted all the same.
Transmit(r) ==
  /\ sends' = [sends EXCEPT ![r] = @ + 1]
  /\ copies' = IF senders THEN [copies EXCEPT ![r] = @ + 1] ELSE copies
  /\ m_sent' = m_sent + 1
  /\ UNCHANGED throws

\* A call of the send function that throws.
Throw ==
  /\ senders /\ throws < MaxThrows
  /\ throws' = throws + 1
  /\ UNCHANGED <<copies, m_sent, sends>>

\* Mutant: the resend is also scheduled when the send succeeded.
SendAndRetry(r) ==
  /\ Transmit(r) \/ Throw
  /\ backoff' = [backoff EXCEPT ![r] = @ + 1]

\* send_now_locked for a request that is pending: it is transmitted, or the
\* exception schedules a resend.
send_now_locked(r) ==
  \/ Transmit(r) /\ UNCHANGED backoff
  \/ Throw /\ backoff' = [backoff EXCEPT ![r] = @ + 1]

-----------------------------------------------------------------------------
(* The public calls.                                                       *)

Register(r, m) ==
  /\ phase[r] = "new"
  /\ phase' = [phase EXCEPT ![r] = "pending"]
  /\ mode' = [mode EXCEPT ![r] = m]
  /\ send_now_locked(r)
  /\ timer' = [timer EXCEPT ![r] = "armed"]
  /\ UNCHANGED <<senders, retries, resending, countVars, answers, dangling>>

\* send_request registers even when no send function is set.
send_request(r) == Register(r, "future")

\* send_request_cb does not: it calls on_error at once.
send_request_cb(r) ==
  \/ senders /\ Register(r, "callback")
  \/ /\ ~senders /\ phase[r] = "new"
     /\ phase' = [phase EXCEPT ![r] = "refused"]
     /\ mode' = [mode EXCEPT ![r] = "callback"]
     /\ answers' = [answers EXCEPT ![r] = @ + 1]
     /\ UNCHANGED <<senders, retries, timer, resendVars, countVars, sendVars, dangling>>

-----------------------------------------------------------------------------
(* Settling a request.                                                     *)

\* Mutant: the entry stays in pending_.
EraseNothing(r) ==
  /\ timer' = [timer EXCEPT ![r] = IF @ = "armed" THEN "off" ELSE @]
  /\ UNCHANGED phase

\* fulfill_and_erase_locked: cancel() stops a timer that runs, not a handler
\* that is queued already; the entry leaves pending_.
Erase(r) ==
  /\ timer' = [timer EXCEPT ![r] = IF @ = "armed" THEN "off" ELSE @]
  /\ phase' = [phase EXCEPT ![r] = "done"]

\* fulfill_and_erase_locked: the counters.
Count(success) ==
  /\ m_ok' = IF success THEN m_ok + 1 ELSE m_ok
  /\ m_fail' = IF success THEN m_fail ELSE m_fail + 1

\* Mutant: replies are not matched against pending_.
FindAlways(r) == TRUE

\* pending_.find(req_id) succeeds.
Find(r) == phase[r] = "pending"

\* handle(json): a db_query_result or an error with this request id.  The
\* caller is told by callback or through the promise; a reply to a request
\* that is not pending is dropped.
Handle(r, ok) ==
  /\ copies[r] > 0
  /\ copies' = [copies EXCEPT ![r] = @ - 1]
  /\ \/ /\ Find(r)
        /\ Erase(r)
        /\ Count(ok)
        /\ answers' = [answers EXCEPT ![r] = @ + 1]
     \/ ~Find(r) /\ UNCHANGED <<phase, timer, m_ok, m_fail, answers>>
  /\ UNCHANGED <<senders, mode, retries, resendVars, m_to, m_retry, m_sent, sends, throws,
                 dangling>>

-----------------------------------------------------------------------------
(* The timeout.                                                            *)

\* The timer runs out; its handler is queued on the strand.
TimerFires(r) ==
  /\ timer[r] = "armed"
  /\ timer' = [timer EXCEPT ![r] = "fired"]
  /\ UNCHANGED <<senders, phase, mode, retries, resendVars, countVars, sendVars, answers, dangling>>

\* Mutant: off by one.
MayRetryOnceMore(r) == retries[r] <= max_retries

MayRetry(r) == retries[r] < max_retries

\* Mutant: the retry forgets to start the timer again.
NoRearm(r) == timer' = [timer EXCEPT ![r] = "off"]

Rearm(r) == timer' = [timer EXCEPT ![r] = "armed"]

\* The handler: nothing if a reply came first, a retry, or the timeout error.
\* The error reaches the promise; on_error is not called.
OnTimeout(r) ==
  /\ timer[r] = "fired"
  /\ \/ /\ ~Find(r)
        /\ timer' = [timer EXCEPT ![r] = "off"]
        /\ UNCHANGED <<phase, retries, backoff, countVars, sendVars, answers>>
     \/ /\ Find(r) /\ MayRetry(r)
        /\ retries' = [retries EXCEPT ![r] = @ + 1]
        /\ m_retry' = m_retry + 1
        /\ send_now_locked(r)
        /\ Rearm(r)
        /\ UNCHANGED <<phase, m_ok, m_to, m_fail, answers>>
     \/ /\ Find(r) /\ ~MayRetry(r)
        /\ m_to' = m_to + 1
        /\ Count(FALSE)
        /\ phase' = [phase EXCEPT ![r] = "done"]
        /\ timer' = [timer EXCEPT ![r] = "off"]
        /\ answers' = [answers EXCEPT ![r] = IF mode[r] = "future" THEN @ + 1 ELSE @]
        /\ UNCHANGED <<retries, backoff, m_retry, sendVars>>
  /\ UNCHANGED <<senders, mode, resending, dangling>>

-----------------------------------------------------------------------------
(* The resend, outside the strand.                                         *)

\* send_now_locked up to and including pending_.find.
ResendLookup(r) ==
  /\ backoff[r] > 0
  /\ backoff' = [backoff EXCEPT ![r] = @ - 1]
  /\ resending' = IF Find(r) THEN [resending EXCEPT ![r] = @ + 1] ELSE resending
  /\ UNCHANGED <<senders, tableVars, countVars, sendVars, answers, dangling>>

\* The rest of it.  schedule_retry looks the request up again.  When the strand
\* erased the entry meanwhile, the Pending is read after it was freed: the old
\* request may go out, or nothing may.
Resend(r) ==
  /\ resending[r] > 0
  /\ resending' = [resending EXCEPT ![r] = @ - 1]
  /\ \/ Transmit(r) /\ UNCHANGED backoff
     \/ Throw /\ backoff' = IF Find(r) THEN [backoff EXCEPT ![r] = @ + 1] ELSE backoff
     \/ ~Find(r) /\ UNCHANGED <<sendVars, backoff>>
  /\ dangling' = (dangling \/ ~Find(r))
  /\ UNCHANGED <<senders, tableVars, countVars, answers>>

-----------------------------------------------------------------------------
Next ==
  \/ SetSenders
  \/ \E r \in Requests :
       \/ send_request(r) \/ send_request_cb(r)
       \/ \E ok \in BOOLEAN : Handle(r, ok)
       \/ TimerFires(r) \/ OnTimeout(r)
       \/ ResendLookup(r) \/ Resend(r)

Spec == Init /\ [][Next]_vars

\* Timers expire and the io_context threads run the handlers that are queued.
\* Nothing is assumed of the middleware or the network.
Fairness ==
  \A r \in Requests : WF_vars(TimerFires(r)) /\ WF_vars(OnTimeout(r))

FairSpec == Spec /\ Fairness

-----------------------------------------------------------------------------
(* Properties.                                                             *)

\* Types; retries never exceed what the caller allowed.
TypeOK ==
  /\ senders \in BOOLEAN /\ dangling \in BOOLEAN
  /\ phase \in [Requests -> Phases]
  /\ mode \in [Requests -> Modes]
  /\ retries \in [Requests -> 0 .. max_retries]
  /\ timer \in [Requests -> {"off", "armed", "fired"}]
  /\ backoff \in [Requests -> Nat] /\ resending \in [Requests -> Nat]
  /\ copies \in [Requests -> Nat] /\ sends \in [Requests -> Nat]
  /\ answers \in [Requests -> Nat]
  /\ m_sent \in Nat /\ m_ok \in Nat /\ m_to \in Nat /\ m_retry \in Nat /\ m_fail \in Nat
  /\ throws \in Nat

\* Every entry of pending_ has a running timer or a queued timeout handler: a
\* request cannot be forgotten in the table.  The timer of a request that is
\* not in the table never runs, so a handler that finds nothing was queued
\* before a reply won the race.
Watched ==
  \A r \in Requests :
    /\ phase[r] = "pending" => timer[r] \in {"armed", "fired"}
    /\ timer[r] = "armed" => phase[r] = "pending"

\* However exceptions, timeouts and late resends mix, the transmissions of a
\* request plus the resends still to come never exceed one plus its retries:
\* the resend timers of schedule_retry multiply nothing.
SendBudget ==
  \A r \in Requests : sends[r] + backoff[r] + resending[r] <= 1 + retries[r]

\* The counters add up: every request that left pending_ was counted exactly
\* once, as ok or as failed, whatever duplicates and late handlers follow, and
\* timeouts are failures.
CountersBalance ==
  /\ m_ok + m_fail = Cardinality(Done)
  /\ m_to <= m_fail

Promise == INSTANCE RequestReply WITH
             Requests <- Requests, phase <- phase, mode <- mode, answers <- answers

\* The router implements what RequestReply promises its callers.
ImplementsRequestReply == Promise!Spec

\* A registered request leaves pending_, even if the middleware never answers,
\* and a caller that waits on the future is told.
Settles ==
  \A r \in Requests :
    /\ phase[r] = "pending" ~> phase[r] = "done"
    /\ phase[r] = "pending" /\ mode[r] = "future" ~> answers[r] = 1

\* Every caller is told the result, which LoginFlow's on_error relies on for
\* its "timeout" message (LoginFlow.cpp:83-85).
CallersAnswered ==
  \A r \in Requests : phase[r] = "pending" ~> answers[r] = 1
================================================================================
