------------------------------- MODULE LoginFlow --------------------------------
(***************************************************************************)
(* Logging in: login_handler, LoginFlow, the nickname index of             *)
(* SessionManager, the default Zone, and the sessions that are closed and  *)
(* recycled meanwhile.                                                     *)
(*                                                                         *)
(* A login waits for the DB middleware (requests); its completion runs on  *)
(* the router's strand, or, while the middleware is not connected, on the  *)
(* strand of the session, so completions of different sessions interleave. *)
(* A completion takes one lock after the other; each is a step.  Closing a *)
(* session, and login_handler's search for the session to close with it,   *)
(* are one step; the interleavings of a close are those of                 *)
(* SessionLifecycle.                                                       *)
(***************************************************************************)
EXTENDS Integers, FiniteSets

CONSTANTS
  Sessions,      \* the session objects of the pool
  Nicknames,
  Threads,       \* that complete logins
  max_sessions,  \* of the zone
  MaxConns,      \* bounds of the model: connections accepted
  MaxLogins      \* and login messages received

CONSTANTS None, NoName

ASSUME LoginAssumption ==
  /\ None \notin Sessions /\ NoName \notin Nicknames
  /\ max_sessions \in Nat /\ MaxConns \in Nat /\ MaxLogins \in Nat

Ids     == 1 .. MaxConns      \* 0: no id yet
Default == 1                  \* the zone of every login; -1 is none
Jobs    == [sess : Sessions, nick : Nicknames, id : Ids]

VARIABLES
  \* Session
  open,        \* in use by a connection
  session_id, nickname,
  registered,  \* nickname_registered_
  zone_id,
  \* SessionManager and Zone
  bucket,      \* session_buckets_: id -> session
  nickname_index,
  zone,        \* sessions_ of the default zone: id -> session
  \* LoginFlow
  requests,    \* logins that wait for the middleware
  pc,          \* what a thread does next
  job,         \* the login a thread completes
  prev,        \* on_user_info_ok's `prev`
  next_id, logins,
  \* history
  raced,       \* a connection was closed before its login was complete
  wronged      \* a login closed a connection of another user

sessVars == <<open, session_id, nickname, registered, zone_id>>
vars == <<sessVars, bucket, nickname_index, zone, requests, pc, job, prev, next_id, logins,
          raced, wronged>>

-----------------------------------------------------------------------------
Init ==
  /\ open = [s \in Sessions |-> FALSE]
  /\ session_id = [s \in Sessions |-> 0]
  /\ nickname = [s \in Sessions |-> NoName]
  /\ registered = [s \in Sessions |-> FALSE]
  /\ zone_id = [s \in Sessions |-> -1]
  /\ bucket = [id \in Ids |-> None]
  /\ nickname_index = [n \in Nicknames |-> None]
  /\ zone = [id \in Ids |-> None]
  /\ requests = {}
  /\ pc = [t \in Threads |-> "idle"]
  /\ job = [t \in Threads |-> None]
  /\ prev = [t \in Threads |-> None]
  /\ next_id = 1 /\ logins = 0
  /\ raced = FALSE /\ wronged = FALSE

-----------------------------------------------------------------------------
(* Closing.  C is empty, or the session to close.                          *)

\* What DataHandler::remove_session finds and takes back.
Managed(s) == session_id[s] \in Ids /\ bucket[session_id[s]] = s

\* Mutant: ids stay in the zone.
LeavesNothing(C) == UNCHANGED zone

\* Zone::remove_session of these ids.
Erased(ids) == [id \in Ids |-> IF id \in ids THEN None ELSE zone[id]]

\* ZoneManager::remove_session, if the session has a zone.
LeaveZone(C) == zone' = Erased({session_id[s] : s \in {c \in C : Managed(c) /\ zone_id[c] > -1}})

\* cleanup(): the session forgets who used it.
cleanup(C) ==
  /\ nickname' = [s \in Sessions |-> IF s \in C THEN NoName ELSE nickname[s]]
  /\ registered' = [s \in Sessions |-> IF s \in C THEN FALSE ELSE registered[s]]
  /\ zone_id' = [s \in Sessions |-> IF s \in C THEN -1 ELSE zone_id[s]]

\* close_session(): out of the manager and the zone, back into the pool.  The
\* nickname index is left alone.
close_session(C) ==
  /\ bucket' = [id \in Ids |->
                  IF \E s \in C : session_id[s] = id /\ Managed(s) THEN None ELSE bucket[id]]
  /\ LeaveZone(C)
  /\ cleanup(C)
  /\ open' = [s \in Sessions |-> open[s] /\ s \notin C]
  /\ raced' = (raced \/ \E t \in Threads : pc[t] # "idle" /\ job[t].sess \in C)
  /\ UNCHANGED session_id

\* A nickname leads to the session to close, unless it is the one that logs in.
Namesake(n, s) == {nickname_index[n]} \ {None, s}

\* Closing C wrongs a connection that neither bears the nickname nor is about to.
Wrongs(C, n) ==
  \E s \in C :
    /\ open[s] /\ nickname[s] # n
    /\ \A t \in Threads : job[t] # [sess |-> s, nick |-> n, id |-> session_id[s]]

-----------------------------------------------------------------------------
(* Connections come and go.                                                *)

\* SessionPool::acquire and SessionManager::add_session.
Accept ==
  /\ next_id <= MaxConns
  /\ next_id' = next_id + 1
  /\ \E s \in Sessions :
       /\ ~open[s]
       /\ open' = [open EXCEPT ![s] = TRUE]
       /\ session_id' = [session_id EXCEPT ![s] = next_id]
       /\ bucket' = [bucket EXCEPT ![next_id] = s]
       /\ cleanup({s})
  /\ UNCHANGED <<nickname_index, zone, requests, pc, job, prev, logins, raced, wronged>>

\* End of file, an error, a sweep, logout_handler.
Disconnect ==
  /\ \E s \in Sessions : open[s] /\ close_session({s})
  /\ UNCHANGED <<nickname_index, requests, pc, job, prev, next_id, logins, wronged>>

-----------------------------------------------------------------------------
(* Logging in.                                                             *)

\* login_handler: a session of that nickname is closed, the middleware asked.
login_handler ==
  /\ logins < MaxLogins /\ logins' = logins + 1
  /\ \E s \in Sessions, n \in Nicknames :
       /\ open[s]
       /\ close_session(Namesake(n, s))
       /\ wronged' = (wronged \/ Wrongs(Namesake(n, s), n))
       /\ requests' = requests \cup {[sess |-> s, nick |-> n, id |-> session_id[s]]}
  /\ UNCHANGED <<nickname_index, pc, job, prev, next_id>>

\* A login whose session was closed, and perhaps recycled, since it began.
Late(j) == ~open[j.sess] \/ session_id[j.sess] # j.id

\* complete_fail: the client is told, no more.
on_user_info_fail ==
  /\ \E j \in requests : requests' = requests \ {j}
  /\ UNCHANGED <<sessVars, bucket, nickname_index, zone, pc, job, prev, next_id, logins,
                 raced, wronged>>

\* on_user_info_ok: add_session, find_session_by_nickname.
on_user_info_ok(t) ==
  /\ pc[t] = "idle"
  /\ \E j \in requests :
       /\ requests' = requests \ {j}
       /\ job' = [job EXCEPT ![t] = j]
       /\ bucket' = [bucket EXCEPT ![session_id[j.sess]] = j.sess]
       /\ prev' = [prev EXCEPT ![t] = nickname_index[j.nick]]
       /\ raced' = (raced \/ Late(j))
  /\ pc' = [pc EXCEPT ![t] = "evict"]
  /\ UNCHANGED <<sessVars, nickname_index, zone, next_id, logins, wronged>>

\* Close the session that was found, whoever uses it by now.
Evict(t) ==
  LET C == {prev[t]} \ {None, job[t].sess} IN
  /\ pc[t] = "evict"
  /\ close_session(C)
  /\ wronged' = (wronged \/ Wrongs(C, job[t].nick))
  /\ prev' = [prev EXCEPT ![t] = None]
  /\ pc' = [pc EXCEPT ![t] = "register"]
  /\ UNCHANGED <<nickname_index, requests, job, next_id, logins>>

\* Mutant: the previous holder is only overwritten.
Overwritten(j) == {}

\* Whom register_nickname closes before it overwrites the entry.
Replaced(j) == Namesake(j.nick, j.sess)

\* register_nickname, under nickname_mutex_.
register_nickname(t) ==
  LET j == job[t] IN
  /\ pc[t] = "register"
  /\ close_session(Replaced(j))
  /\ wronged' = (wronged \/ Wrongs(Replaced(j), j.nick))
  /\ nickname_index' = [nickname_index EXCEPT ![j.nick] = j.sess]
  /\ pc' = [pc EXCEPT ![t] = "name"]
  /\ UNCHANGED <<requests, job, prev, next_id, logins>>

\* set_nickname, on_nickname_registered.
SetNickname(t) ==
  LET j == job[t] IN
  /\ pc[t] = "name"
  /\ nickname' = [nickname EXCEPT ![j.sess] = j.nick]
  /\ registered' = [registered EXCEPT ![j.sess] = TRUE]
  /\ pc' = [pc EXCEPT ![t] = "assign"]
  /\ UNCHANGED <<open, session_id, zone_id, bucket, nickname_index, zone, requests, job, prev,
                 next_id, logins, raced, wronged>>

Members == {id \in Ids : zone[id] # None}

\* Mutant: the zone has no limit.
AlwaysRoom(s) == zone[session_id[s]] = None

\* Zone::add_session succeeds.
Room(s) == Cardinality(Members) < max_sessions /\ zone[session_id[s]] = None

\* assign_session_to_zone: Zone::add_session ...
AddToZone(t) ==
  LET s == job[t].sess IN
  /\ pc[t] = "assign"
  /\ \/ /\ Room(s)
        /\ zone' = [zone EXCEPT ![session_id[s]] = s]
        /\ pc' = [pc EXCEPT ![t] = "zone"]
        /\ UNCHANGED job
     \/ /\ ~Room(s)
        /\ pc' = [pc EXCEPT ![t] = "idle"]
        /\ job' = [job EXCEPT ![t] = None]
        /\ UNCHANGED zone
  /\ UNCHANGED <<sessVars, bucket, nickname_index, requests, prev, next_id, logins, raced,
                 wronged>>

\* ... then set_zone_id, and the client is told.
SetZone(t) ==
  /\ pc[t] = "zone"
  /\ zone_id' = [zone_id EXCEPT ![job[t].sess] = Default]
  /\ pc' = [pc EXCEPT ![t] = "idle"]
  /\ job' = [job EXCEPT ![t] = None]
  /\ UNCHANGED <<open, session_id, nickname, registered, bucket, nickname_index, zone, requests,
                 prev, next_id, logins, raced, wronged>>

-----------------------------------------------------------------------------
Complete(t) ==
  \/ on_user_info_ok(t) \/ Evict(t) \/ register_nickname(t)
  \/ SetNickname(t) \/ AddToZone(t) \/ SetZone(t)

Next ==
  \/ Accept \/ Disconnect \/ login_handler \/ on_user_info_fail
  \/ \E t \in Threads : Complete(t)

Spec == Init /\ [][Next]_vars

-----------------------------------------------------------------------------
(* Properties.                                                             *)

\* Types; the zone never has more members than allowed, whichever logins and
\* closes overlap.
TypeOK ==
  /\ open \in [Sessions -> BOOLEAN] /\ registered \in [Sessions -> BOOLEAN]
  /\ session_id \in [Sessions -> Ids \cup {0}]
  /\ nickname \in [Sessions -> Nicknames \cup {NoName}]
  /\ zone_id \in [Sessions -> {-1, Default}]
  /\ bucket \in [Ids -> Sessions \cup {None}] /\ zone \in [Ids -> Sessions \cup {None}]
  /\ Cardinality(Members) <= max_sessions
  /\ nickname_index \in [Nicknames -> Sessions \cup {None}]
  /\ requests \subseteq Jobs
  /\ pc \in [Threads -> {"idle", "evict", "register", "name", "assign", "zone"}]
  /\ job \in [Threads -> Jobs \cup {None}] /\ prev \in [Threads -> Sessions \cup {None}]
  /\ raced \in BOOLEAN /\ wronged \in BOOLEAN

\* Two connections never bear one nickname, and the index leads to the one that
\* does, however the logins of several sessions, or several logins of one
\* session, overlap - as long as no connection closes before its login is
\* complete.
UniqueLogin ==
  ~raced => \A s \in Sessions :
    nickname[s] # NoName => open[s] /\ nickname_index[nickname[s]] = s

\* Unless a connection closed before its login was complete, the zone holds
\* exactly the open connections that joined it: nobody that left takes up room
\* or receives its messages, and nobody is lost when a session logs in twice.
ZoneSound ==
  ~raced =>
    /\ \A id \in Members : open[zone[id]] /\ session_id[zone[id]] = id
    /\ \A s \in Sessions : zone_id[s] = Default => open[s] /\ zone[session_id[s]] = s
    /\ \A id \in Members : zone_id[zone[id]] = Default \/
         \E t \in Threads : pc[t] = "zone" /\ job[t].sess = zone[id]

\* A login closes only connections of its nickname, as long as no connection
\* closes before its login is complete: the index forgets a nickname when its session
\* ends ("Upon logout/termination, unregister is performed", README.md:953).
NamesakesOnly == ~raced => ~wronged
================================================================================
